---- MODULE Spec2Model ----
(***************************************************************************)
(* State-machine model of the tensor_converter element                     *)
(* (gst/nnstreamer/elements/gsttensor_converter.c): capability             *)
(* negotiation, the per-substream frame window (GstAdapter) engine and     *)
(* the chain function.                                                     *)
(*                                                                         *)
(* Clock times are counted in milliseconds (GST_SECOND == 1000) so that    *)
(* the 64-bit products of the time arithmetic stay inside TLC's integers.  *)
(* The DTS of a buffer is treated by the code exactly as its PTS and is    *)
(* not carried by the model.                                               *)
(***************************************************************************)
EXTENDS Integers, Sequences, FiniteSets, TLC

(***************************************************************************)
(* Bounds of the model.                                                    *)
(***************************************************************************)
\* number of dimension slots of a tensor (NNS_TENSOR_RANK_LIMIT)
MaxRank == 4
\* number of tensor slots of a descriptor (NNS_TENSOR_SIZE_LIMIT)
MaxTensors == 2
\* number of buffers the upstream neighbor delivers
MaxBuffers == 3
\* largest substream key (GstMetaQuery client_id); 0 is "no meta"
MaxKey == 1
\* largest frames-per-tensor value written to the property
MaxFrames == 3

(***************************************************************************)
(* Clock time.                                                             *)
(***************************************************************************)
GST_CLOCK_TIME_NONE == -1
GST_SECOND == 1000
\* upstream running time advances by this much per delivered buffer
BufferInterval == 3

GST_CLOCK_TIME_IS_VALID(t) == t # GST_CLOCK_TIME_NONE

Min(a, b) == IF a < b THEN a ELSE b

\* gst_util_uint64_scale_int (val, num, denom) for denom > 0, num >= 0:
\* val * num / denom, rounded down.
gst_util_uint64_scale_int(val, num, denom) == (val * num) \div denom

(***************************************************************************)
(* Tensor descriptor model (tensor_typedef.h, nnstreamer_plugin_api_util). *)
(***************************************************************************)
_NNS_END == "_NNS_END"
TensorTypes ==
  {"_NNS_INT8", "_NNS_UINT8", "_NNS_INT16", "_NNS_UINT16", "_NNS_INT32",
   "_NNS_UINT32", "_NNS_INT64", "_NNS_UINT64", "_NNS_FLOAT16", "_NNS_FLOAT32",
   "_NNS_FLOAT64"}

gst_tensor_get_element_size(type) ==
  CASE type \in {"_NNS_INT8", "_NNS_UINT8"} -> 1
    [] type \in {"_NNS_INT16", "_NNS_UINT16", "_NNS_FLOAT16"} -> 2
    [] type \in {"_NNS_INT32", "_NNS_UINT32", "_NNS_FLOAT32"} -> 4
    [] type \in {"_NNS_INT64", "_NNS_UINT64", "_NNS_FLOAT64"} -> 8
    [] OTHER -> 0

\* a dimension array: the given leading sizes, the remaining slots zero
Dim(s) == [i \in 1..MaxRank |-> IF i <= Len(s) THEN s[i] ELSE 0]

ZeroDim == Dim(<<>>)

\* gst_tensor_info_init
EmptyTensor == [type |-> _NNS_END, dimension |-> ZeroDim]

Tensor(type, dims) == [type |-> type, dimension |-> Dim(dims)]

\* gst_tensors_info_init
EmptyInfo ==
  [num_tensors |-> 0, format |-> "static",
   info |-> [i \in 1..MaxTensors |-> EmptyTensor]]

\* a static descriptor holding the given tensors
Info(ts) ==
  [num_tensors |-> Len(ts), format |-> "static",
   info |-> [i \in 1..MaxTensors |-> IF i <= Len(ts) THEN ts[i] ELSE EmptyTensor]]

\* gst_tensors_config_init
EmptyConfig == [info |-> EmptyInfo, rate_n |-> -1, rate_d |-> -1]

\* gst_tensor_dimension_is_valid: the first size is set and no size follows
\* an unset one
gst_tensor_dimension_is_valid(dim) ==
  /\ dim[1] > 0
  /\ \A i \in 1..(MaxRank - 1) : dim[i] = 0 => dim[i + 1] = 0

\* gst_tensor_info_validate
gst_tensor_info_validate(t) ==
  t.type # _NNS_END /\ gst_tensor_dimension_is_valid(t.dimension)

\* gst_tensors_info_validate: a flexible descriptor is not checked further
gst_tensors_info_validate(info) ==
  /\ info.num_tensors >= 1
  /\ info.num_tensors <= MaxTensors
  /\ (info.format = "static" =>
        \A i \in 1..info.num_tensors : gst_tensor_info_validate(info.info[i]))

\* gst_tensors_config_validate
gst_tensors_config_validate(config) ==
  /\ config.rate_n >= 0
  /\ config.rate_d > 0
  /\ gst_tensors_info_validate(config.info)

gst_tensors_config_is_flexible(config) == config.info.format = "flexible"

\* gst_tensor_dimension_is_equal: sizes agree, an unset size counting as 1
gst_tensor_dimension_is_equal(d1, d2) ==
  /\ gst_tensor_dimension_is_valid(d1)
  /\ gst_tensor_dimension_is_valid(d2)
  /\ \A i \in 1..MaxRank : d1[i] # d2[i] => (d1[i] <= 1 /\ d2[i] <= 1)

\* gst_tensor_info_is_equal
gst_tensor_info_is_equal(t1, t2) ==
  /\ gst_tensor_info_validate(t1)
  /\ gst_tensor_info_validate(t2)
  /\ t1.type = t2.type
  /\ gst_tensor_dimension_is_equal(t1.dimension, t2.dimension)

\* gst_tensors_info_is_equal
gst_tensors_info_is_equal(i1, i2) ==
  /\ i1.format = i2.format
  /\ (i1.format = "static" =>
        /\ gst_tensors_info_validate(i1)
        /\ gst_tensors_info_validate(i2)
        /\ i1.num_tensors = i2.num_tensors
        /\ \A i \in 1..i1.num_tensors :
              gst_tensor_info_is_equal(i1.info[i], i2.info[i]))

\* gst_tensors_config_is_equal
gst_tensors_config_is_equal(c1, c2) ==
  /\ gst_tensors_config_validate(c1)
  /\ gst_tensors_config_validate(c2)
  /\ c1.rate_n * c2.rate_d = c2.rate_n * c1.rate_d
  /\ gst_tensors_info_is_equal(c1.info, c2.info)

RECURSIVE DimProduct(_, _)
\* product of the leading sizes of a dimension array, up to the first unset one
DimProduct(dim, i) ==
  IF i > MaxRank \/ dim[i] = 0 THEN 1 ELSE dim[i] * DimProduct(dim, i + 1)

\* gst_tensor_info_get_size
gst_tensor_info_get_size(t) ==
  gst_tensor_get_element_size(t.type) * DimProduct(t.dimension, 1)

\* the element types in the order of their codes in a header
TypeCodes ==
  <<"_NNS_INT32", "_NNS_UINT32", "_NNS_INT16", "_NNS_UINT16", "_NNS_INT8",
    "_NNS_UINT8", "_NNS_FLOAT64", "_NNS_FLOAT32", "_NNS_INT64", "_NNS_UINT64",
    "_NNS_FLOAT16", "_NNS_END">>

TypeCode(type) == (CHOOSE c \in 1..Len(TypeCodes) : TypeCodes[c] = type) - 1

\* gst_tensor_dimension_get_rank: the number of leading sizes that are set
gst_tensor_dimension_get_rank(dim) ==
  Cardinality({i \in 1..MaxRank : \A j \in 1..i : dim[j] > 0})

\* gst_tensor_info_convert_to_meta: the header of a tensor holds the code of
\* its element type, its rank and that many sizes; the media kind is tensor
\* until the caller sets it
gst_tensor_info_convert_to_meta(info) ==
  LET rank == gst_tensor_dimension_get_rank(info.dimension)
  IN [type |-> TypeCode(info.type), rank |-> rank,
      dimension |-> [i \in 1..rank |-> info.dimension[i]],
      format |-> "static", media_type |-> "_NNS_TENSOR"]

\* gst_tensor_meta_info_convert: the tensor descriptor a header describes;
\* the sizes past the rank are unset
gst_tensor_meta_info_convert(meta) ==
  [type |-> TypeCodes[meta.type + 1], dimension |-> Dim(meta.dimension)]

RECURSIVE SumSizes(_, _)
SumSizes(info, i) ==
  IF i > info.num_tensors THEN 0
  ELSE gst_tensor_info_get_size(info.info[i]) + SumSizes(info, i + 1)

\* gst_tensors_info_get_size (info, -1): byte size of all tensors
gst_tensors_info_get_size(info) == SumSizes(info, 1)

(***************************************************************************)
(* Media capabilities delivered by the upstream neighbor (GstCaps).        *)
(* One record shape for every media kind; unused fields are 0 or "".       *)
(***************************************************************************)
Caps(media, format, width, height, channels, has_rate, n, d) ==
  [media |-> media, format |-> format, width |-> width, height |-> height,
   channels |-> channels, has_framerate |-> has_rate, rate_n |-> n, rate_d |-> d]

VideoCaps ==
  {Caps("video/x-raw", "GRAY8", 4, 2, 0, TRUE, 1000, 1),
   Caps("video/x-raw", "GRAY8", 5, 2, 0, TRUE, 1000, 1),
   Caps("video/x-raw", "RGBP", 5, 2, 0, TRUE, 1000, 1)}

\* S24 is a raw audio format of the media convention that the converter's
\* switch does not map to an element type
AudioCaps ==
  {Caps("audio/x-raw", f, 0, 0, 1, TRUE, r, 1) :
     f \in {"S16", "S24"}, r \in {1000}}

TextCaps == {Caps("text/x-raw", "utf8", 0, 0, 0, FALSE, 0, 0)}

OctetCaps ==
  {Caps("application/octet-stream", "", 0, 0, 0, FALSE, 0, 0),
   Caps("application/octet-stream", "", 0, 0, 0, TRUE, 1000, 1)}

FlexTensorCaps == {Caps("other/tensors", "flexible", 0, 0, 0, TRUE, 0, 1)}

\* a media type only an external converter understands
OtherCaps == {Caps("other/flexbuf", "", 0, 0, 0, TRUE, 0, 1)}

CapsUniverse ==
  VideoCaps \cup AudioCaps \cup TextCaps \cup OctetCaps \cup FlexTensorCaps
    \cup OtherCaps

\* gst_structure_get_media_type
gst_structure_get_media_type(caps) ==
  CASE caps.media = "video/x-raw" -> "_NNS_VIDEO"
    [] caps.media = "audio/x-raw" -> "_NNS_AUDIO"
    [] caps.media = "text/x-raw" -> "_NNS_TEXT"
    [] caps.media = "application/octet-stream" -> "_NNS_OCTET"
    [] caps.media = "other/tensors" -> "_NNS_TENSOR"
    [] OTHER -> "_NNS_MEDIA_ANY"

GST_ROUND_UP_4(n) == ((n + 3) \div 4) * 4

\* GST_VIDEO_INFO_SIZE: rows are padded to a multiple of 4 bytes; RGBP holds
\* three planes of one byte per pixel
GST_VIDEO_INFO_SIZE(format, width, height) ==
  CASE format = "GRAY8" -> GST_ROUND_UP_4(width) * height
    [] format \in {"GRAY16_BE", "GRAY16_LE"} -> GST_ROUND_UP_4(2 * width) * height
    [] format \in {"RGB", "BGR"} -> GST_ROUND_UP_4(3 * width) * height
    [] format \in {"RGBx", "BGRx", "xRGB", "xBGR", "RGBA", "BGRA", "ARGB",
                   "ABGR"} -> 4 * width * height
    [] format \in {"RGBP", "BGRP"} -> 3 * GST_ROUND_UP_4(width) * height
    [] OTHER -> 0

\* GST_AUDIO_INFO_BPF: bytes per sample times channels
GST_AUDIO_INFO_BPF(format, channels) ==
  CASE format = "S16" -> 2 * channels
    [] format = "S24" -> 3 * channels
    [] OTHER -> 0

(***************************************************************************)
(* The downstream neighbor (peer of the src pad).                          *)
(***************************************************************************)
\* accepts any tensor stream: its caps give neither format nor shape
AnyPeer == [format |-> "any", config |-> EmptyConfig, is_fixed |-> FALSE]

\* accepts other/tensors,format=flexible
FlexPeer ==
  [format |-> "flexible",
   config |-> [EmptyConfig EXCEPT !.info.format = "flexible"],
   is_fixed |-> FALSE]

\* accepts exactly one static descriptor: one uint8 tensor of 2 bytes
StaticPeer ==
  [format |-> "static",
   config |-> [info |-> Info(<<Tensor("_NNS_UINT8", <<2>>)>>),
               rate_n |-> 0, rate_d |-> 1],
   is_fixed |-> TRUE]

PeerSet == {AnyPeer, FlexPeer, StaticPeer}

\* gst_tensors_config_from_peer: the descriptor the peer's caps give
gst_tensors_config_from_peer(p) ==
  [ok |-> TRUE, config |-> p.config, is_fixed |-> p.is_fixed]

NoCaps == [format |-> "none"]

\* gst_tensor_pad_caps_from_config: flexible caps carry the frame rate only;
\* static caps carry type and dimension of each declared tensor
gst_tensor_pad_caps_from_config(p, config) ==
  IF gst_tensors_config_is_flexible(config) \/ p.format = "flexible"
  THEN [format |-> "flexible", rate_n |-> config.rate_n, rate_d |-> config.rate_d]
  ELSE [format |-> "static", rate_n |-> config.rate_n, rate_d |-> config.rate_d,
        num_tensors |-> config.info.num_tensors,
        tensors |-> [i \in 1..Min(config.info.num_tensors, MaxTensors) |->
                       config.info.info[i]]]

\* gst_tensor_pad_caps_is_flexible
gst_tensor_pad_caps_is_flexible(caps) == caps.format = "flexible"

(***************************************************************************)
(* External converter sub-plugins and custom callbacks (the registries of  *)
(* nnstreamer_subplugin), in registration order.                           *)
(***************************************************************************)
NULL == "NULL"

\* registered external converters: name and the media types query_caps lists
ExternalConverters ==
  << [name |-> "flexbuf", query_caps |-> <<"other/flexbuf">>],
     [name |-> "python3", query_caps |-> <<"application/octet-stream">>] >>

\* the converters registered at the moment (get_all_subplugins), in the
\* order the loop of findExternalConverter visits them
VARIABLE subplugins

\* names registered with nnstreamer_converter_custom_register
CustomCallbacks == {"cb", "cb2"}

\* get_subplugin (NNS_CUSTOM_CONVERTER, name)
get_custom_subplugin(name) == IF name \in CustomCallbacks THEN name ELSE NULL

(***************************************************************************)
(* The element: the fields of GstTensorConverter after                     *)
(* gst_tensor_converter_init.                                              *)
(***************************************************************************)
TimeSegment == [format |-> "GST_FORMAT_TIME", start |-> 0]

gst_tensor_converter_init ==
  [set_timestamp |-> TRUE,
   frames_per_tensor |-> 1,
   in_media_type |-> "_NNS_MEDIA_INVALID",
   frame_size |-> 0,
   remove_padding |-> FALSE,
   externalConverter |-> NULL,
   priv_data |-> NULL,
   mode |-> "_CONVERTER_MODE_NONE",
   mode_option |-> NULL,
   ext_fw |-> NULL,
   custom |-> NULL,
   custom_data |-> NULL,
   do_not_append_header |-> FALSE,
   tensors_info |-> EmptyInfo,
   tensors_config |-> EmptyConfig,
   tensors_configured |-> FALSE,
   adapter_table |-> [k \in {} |-> 0],
   have_segment |-> FALSE,
   need_segment |-> FALSE,
   segment |-> TimeSegment,
   old_timestamp |-> GST_CLOCK_TIME_NONE]

\* config with slot idx (1-based) of the first tensor's dimension set
SetDim(config, idx, val) ==
  [config EXCEPT !.info.info[1].dimension[idx] = val]

\* config with the first tensor's slots from (1-based) on cleared
ClearDimsFrom(config, from) ==
  [config EXCEPT !.info.info[1].dimension =
     [i \in 1..MaxRank |-> IF i >= from THEN 0 ELSE @[i]]]

\* the frame rate of the caps structure, or 0/1 when it has none
WithFramerate(config, caps) ==
  IF caps.has_framerate
  THEN [config EXCEPT !.rate_n = caps.rate_n, !.rate_d = caps.rate_d]
  ELSE [config EXCEPT !.rate_n = 0, !.rate_d = 1]

(***************************************************************************)
(* Capability parsers.  Each returns whether it succeeded, the element as  *)
(* it left it, and the descriptor it filled.                               *)
(***************************************************************************)
gst_tensor_converter_video_stride(format, width) ==
  /\ format \in {"GRAY8", "RGB", "BGR", "I420", "RGBP", "BGRP"}
  /\ width % 4 # 0

\* a format switch that takes every format for one channel of bytes with
\* the rows first
VideoFormatInfoRowsFirst(config, format, width, height) ==
  [config EXCEPT !.info.info[1] = Tensor("_NNS_UINT8", <<1, height, width>>)]

\* type and the three leading dimensions the format switch assigns
VideoFormatInfo(config, format, width, height) ==
  CASE format = "GRAY8" ->
         [config EXCEPT !.info.info[1] = Tensor("_NNS_UINT8", <<1, width, height>>)]
    [] format \in {"GRAY16_BE", "GRAY16_LE"} ->
         [config EXCEPT !.info.info[1] = Tensor("_NNS_UINT16", <<1, width, height>>)]
    [] format \in {"RGB", "BGR"} ->
         [config EXCEPT !.info.info[1] = Tensor("_NNS_UINT8", <<3, width, height>>)]
    [] format \in {"RGBx", "BGRx", "xRGB", "xBGR", "RGBA", "BGRA", "ARGB", "ABGR"} ->
         [config EXCEPT !.info.info[1] = Tensor("_NNS_UINT8", <<4, width, height>>)]
    [] format \in {"RGBP", "BGRP"} ->
         [config EXCEPT !.info.info[1] = Tensor("_NNS_UINT8", <<width, height, 3>>)]
    [] OTHER -> config

gst_tensor_converter_parse_video(self, caps) ==
  LET c1 == [EmptyConfig EXCEPT !.info.num_tensors = 1]
      c2 == VideoFormatInfo(c1, caps.format, caps.width, caps.height)
      c3 == ClearDimsFrom(SetDim(c2, 4, 1), 5)
      config == [c3 EXCEPT !.rate_n = caps.rate_n, !.rate_d = caps.rate_d]
      stride == gst_tensor_converter_video_stride(caps.format, caps.width)
      s1 == IF stride THEN [self EXCEPT !.remove_padding = TRUE] ELSE self
  IN IF stride /\ caps.format \in {"RGBP", "BGRP"}
     THEN [ok |-> FALSE, self |-> s1, config |-> config]
     ELSE [ok |-> config.info.info[1].type # _NNS_END,
           self |-> [s1 EXCEPT !.frame_size =
                       GST_VIDEO_INFO_SIZE(caps.format, caps.width, caps.height)],
           config |-> config]

\* element type the format switch assigns
AudioFormatType(format) ==
  CASE format = "S8" -> "_NNS_INT8"
    [] format = "U8" -> "_NNS_UINT8"
    [] format = "S16" -> "_NNS_INT16"
    [] format = "U16" -> "_NNS_UINT16"
    [] format = "S32" -> "_NNS_INT32"
    [] format = "U32" -> "_NNS_UINT32"
    [] format = "F32" -> "_NNS_FLOAT32"
    [] format = "F64" -> "_NNS_FLOAT64"
    [] OTHER -> _NNS_END

gst_tensor_converter_parse_audio(self, caps) ==
  LET c1 == [EmptyConfig EXCEPT !.info.num_tensors = 1,
                                !.info.info[1].type = AudioFormatType(caps.format)]
      c2 == ClearDimsFrom(SetDim(SetDim(c1, 1, caps.channels), 2, 1), 3)
      config == [c2 EXCEPT !.rate_n = caps.rate_n, !.rate_d = 1]
  IN [ok |-> config.info.info[1].type # _NNS_END,
      self |-> [self EXCEPT !.frame_size =
                  GST_AUDIO_INFO_BPF(caps.format, caps.channels)],
      config |-> config]

gst_tensor_converter_parse_text(self, caps) ==
  LET text_size == self.tensors_info.info[1].dimension[1]
      c1 == IF caps.format = "utf8"
            THEN [EmptyConfig EXCEPT !.info.info[1].type = "_NNS_UINT8"]
            ELSE EmptyConfig
      c2 == [c1 EXCEPT !.info.num_tensors = 1]
      c3 == ClearDimsFrom(SetDim(SetDim(c2, 1, text_size), 2, 1), 3)
      config == WithFramerate(c3, caps)
  IN IF text_size = 0 THEN [ok |-> FALSE, self |-> self, config |-> EmptyConfig]
     ELSE IF caps.format # "utf8" THEN [ok |-> FALSE, self |-> self, config |-> c1]
     ELSE [ok |-> config.info.info[1].type # _NNS_END,
           self |-> [self EXCEPT !.frame_size =
                       gst_tensor_info_get_size(config.info.info[1])],
           config |-> config]

\* the flexible single-tensor byte descriptor with placeholder dimension
FlexibleOctetInfo ==
  [num_tensors |-> 1, format |-> "flexible",
   info |-> [i \in 1..MaxTensors |->
               IF i = 1 THEN Tensor("_NNS_UINT8", <<1>>) ELSE EmptyTensor]]

\* a parser of octet caps that asks the downstream neighbor before it looks
\* at the declared descriptor
parse_octet_peer_first(self, caps, p) ==
  LET peer_cfg == gst_tensors_config_from_peer(p)
      flexible == gst_tensors_config_is_flexible(peer_cfg.config)
      configured == gst_tensors_info_validate(peer_cfg.config.info)
      info == IF configured THEN peer_cfg.config.info ELSE self.tensors_info
      rated == WithFramerate(EmptyConfig, caps)
  IN IF ~flexible /\ ~gst_tensors_info_validate(info)
       THEN [ok |-> FALSE, self |-> self, config |-> EmptyConfig]
     ELSE IF flexible
       THEN [ok |-> TRUE, self |-> self,
             config |-> [rated EXCEPT !.info = FlexibleOctetInfo]]
     ELSE [ok |-> TRUE,
           self |-> [self EXCEPT !.frame_size = gst_tensors_info_get_size(info)],
           config |-> [rated EXCEPT !.info = info]]

gst_tensor_converter_parse_octet(self, caps, p) ==
  LET user == gst_tensors_info_validate(self.tensors_info)
      peer_cfg == gst_tensors_config_from_peer(p)
      flexible == ~user /\ peer_cfg.ok /\ gst_tensors_config_is_flexible(peer_cfg.config)
      configured == ~user /\ peer_cfg.ok /\ gst_tensors_info_validate(peer_cfg.config.info)
      info == IF configured THEN peer_cfg.config.info ELSE self.tensors_info
      rated == WithFramerate(EmptyConfig, caps)
  IN IF ~user /\ ~flexible /\ ~configured
       THEN [ok |-> FALSE, self |-> self, config |-> EmptyConfig]
     ELSE IF self.frames_per_tensor > 1 /\ info.num_tensors > 1
       THEN [ok |-> FALSE, self |-> self, config |-> EmptyConfig]
     ELSE IF self.frames_per_tensor > 1 /\ flexible
       THEN [ok |-> FALSE, self |-> self, config |-> EmptyConfig]
     ELSE IF flexible
       THEN [ok |-> TRUE, self |-> self,
             config |-> [rated EXCEPT !.info = FlexibleOctetInfo]]
     ELSE [ok |-> TRUE,
           self |-> [self EXCEPT !.frame_size = gst_tensors_info_get_size(info)],
           config |-> [rated EXCEPT !.info = info]]

\* a parser of flexible tensor caps that does not look at frames-per-tensor
parse_tensor_any_frames(self, caps) ==
  LET user == gst_tensors_info_validate(self.tensors_info)
      c1 == IF user
            THEN [EmptyConfig EXCEPT !.info = self.tensors_info]
            ELSE [EmptyConfig EXCEPT !.info.num_tensors = 1,
                                     !.info.info[1] = Tensor("_NNS_UINT8", <<1>>)]
  IN [ok |-> TRUE,
      self |-> IF user
               THEN [self EXCEPT !.frame_size =
                       gst_tensors_info_get_size(self.tensors_info)]
               ELSE self,
      config |-> WithFramerate(c1, caps)]

gst_tensor_converter_parse_tensor(self, caps) ==
  LET user == gst_tensors_info_validate(self.tensors_info)
      c1 == IF user
            THEN [EmptyConfig EXCEPT !.info = self.tensors_info]
            ELSE [EmptyConfig EXCEPT !.info.num_tensors = 1,
                                     !.info.info[1] = Tensor("_NNS_UINT8", <<1>>)]
  IN IF self.frames_per_tensor > 1
       THEN [ok |-> FALSE, self |-> self, config |-> EmptyConfig]
     ELSE [ok |-> TRUE,
           self |-> IF user
                    THEN [self EXCEPT !.frame_size =
                            gst_tensors_info_get_size(self.tensors_info)]
                    ELSE self,
           config |-> WithFramerate(c1, caps)]

RECURSIVE FindFrom(_, _)
\* the loop of findExternalConverter from plugin i on: a plugin is returned
\* when its name, or one of the media types it lists, is the one looked for
FindFrom(media_type, i) ==
  IF i > Len(subplugins) THEN NULL
  ELSE IF media_type = subplugins[i].name
    THEN subplugins[i].name
  ELSE IF \E j \in 1..Len(subplugins[i].query_caps) :
            subplugins[i].query_caps[j] = media_type
    THEN subplugins[i].name
  ELSE FindFrom(media_type, i + 1)

\* name of the converter found, or NULL
findExternalConverter(media_type) == FindFrom(media_type, 1)

\* the placeholder descriptor of custom-code mode: one uint8 tensor 1:1:1:1
PlaceholderInfo == Info(<<Tensor("_NNS_UINT8", <<1, 1, 1, 1>>)>>)

\* what the collaborators may answer during negotiation: whether
\* get_out_config succeeds, the descriptor it fills, the return value of open
ExtConfigs ==
  {[info |-> PlaceholderInfo, rate_n |-> 0, rate_d |-> 1]}

NegotiationEnv ==
  [out_ok : BOOLEAN, out_config : ExtConfigs, open_ret : {0, -1}]

\* a custom-code negotiation that always takes the descriptor of the peer
parse_custom_no_placeholder(self, caps, p, env) ==
  LET peer_cfg == gst_tensors_config_from_peer(p)
      is_fixed == peer_cfg.ok /\ peer_cfg.is_fixed
      mimetype == IF self.mode = "_CONVERTER_MODE_CUSTOM_SCRIPT"
                  THEN self.ext_fw ELSE caps.media
      ex == findExternalConverter(mimetype)
      opened == [self EXCEPT !.externalConverter = ex,
                             !.priv_data =
                               IF self.mode = "_CONVERTER_MODE_CUSTOM_SCRIPT"
                               THEN self.mode_option ELSE @]
  IN IF self.mode = "_CONVERTER_MODE_CUSTOM_CODE"
       THEN [ok |-> TRUE, self |-> self,
             config |-> peer_cfg.config]
     ELSE IF self.externalConverter # NULL
       THEN [ok |-> TRUE, self |-> self, config |-> peer_cfg.config]
     ELSE IF ex = NULL
       THEN [ok |-> FALSE, self |-> self, config |-> peer_cfg.config]
     ELSE IF ~is_fixed /\ ~env.out_ok
       THEN [ok |-> FALSE, self |-> self, config |-> peer_cfg.config]
     ELSE IF self.mode = "_CONVERTER_MODE_CUSTOM_SCRIPT" /\ env.open_ret < 0
       THEN [ok |-> FALSE, self |-> [self EXCEPT !.externalConverter = NULL],
             config |-> peer_cfg.config]
     ELSE [ok |-> TRUE, self |-> opened,
           config |-> IF is_fixed THEN peer_cfg.config ELSE env.out_config]

\* gst_tensor_converter_parse_custom: custom-code mode takes the descriptor
\* of a fixed peer or the placeholder; otherwise an external converter is
\* looked up, asked for its descriptor and, in custom-script mode, opened
gst_tensor_converter_parse_custom(self, caps, p, env) ==
  LET peer_cfg == gst_tensors_config_from_peer(p)
      is_fixed == peer_cfg.ok /\ peer_cfg.is_fixed
      mimetype == IF self.mode = "_CONVERTER_MODE_CUSTOM_SCRIPT"
                  THEN self.ext_fw ELSE caps.media
      ex == findExternalConverter(mimetype)
      opened == [self EXCEPT !.externalConverter = ex,
                             !.priv_data =
                               IF self.mode = "_CONVERTER_MODE_CUSTOM_SCRIPT"
                               THEN self.mode_option ELSE @]
  IN IF self.mode = "_CONVERTER_MODE_CUSTOM_CODE"
       THEN [ok |-> TRUE, self |-> self,
             config |-> IF is_fixed THEN peer_cfg.config
                        ELSE WithFramerate(
                               [EmptyConfig EXCEPT !.info = PlaceholderInfo], caps)]
     ELSE IF self.externalConverter # NULL
       THEN [ok |-> TRUE, self |-> self, config |-> peer_cfg.config]
     ELSE IF ex = NULL
       THEN [ok |-> FALSE, self |-> self, config |-> peer_cfg.config]
     ELSE IF ~is_fixed /\ ~env.out_ok
       THEN [ok |-> FALSE, self |-> self, config |-> peer_cfg.config]
     ELSE IF self.mode = "_CONVERTER_MODE_CUSTOM_SCRIPT" /\ env.open_ret < 0
       THEN [ok |-> FALSE, self |-> [self EXCEPT !.externalConverter = NULL],
             config |-> peer_cfg.config]
     ELSE [ok |-> TRUE, self |-> opened,
           config |-> IF is_fixed THEN peer_cfg.config ELSE env.out_config]

\* the media kind a capability event selects
SelectMediaType(self, caps) ==
  IF self.mode # "_CONVERTER_MODE_NONE" THEN "_NNS_MEDIA_ANY"
  ELSE gst_structure_get_media_type(caps)

\* the parser of the selected media kind
ParseMedia(self, caps, in_type, p, env) ==
  CASE in_type = "_NNS_VIDEO" -> gst_tensor_converter_parse_video(self, caps)
    [] in_type = "_NNS_AUDIO" -> gst_tensor_converter_parse_audio(self, caps)
    [] in_type = "_NNS_TEXT" -> gst_tensor_converter_parse_text(self, caps)
    [] in_type = "_NNS_OCTET" -> gst_tensor_converter_parse_octet(self, caps, p)
    [] in_type = "_NNS_TENSOR" -> gst_tensor_converter_parse_tensor(self, caps)
    [] OTHER -> gst_tensor_converter_parse_custom(self, caps, p, env)

\* dimension slot (1-based) that holds the frame count, 0 when there is none
FramesDim(in_type) ==
  CASE in_type = "_NNS_VIDEO" -> 4
    [] in_type \in {"_NNS_AUDIO", "_NNS_TEXT"} -> 2
    [] OTHER -> 0

\* a comparison that accepts every derived descriptor
MatchesDeclaredAlways(self, config) == TRUE

\* the check of the derived descriptor against the one declared through
\* input-dim / input-type
MatchesDeclared(self, config) ==
  gst_tensors_info_validate(self.tensors_info) =>
    gst_tensors_info_is_equal(self.tensors_info, config.info)

gst_tensor_converter_parse_caps(self, caps, p, env) ==
  LET in_type == SelectMediaType(self, caps)
      r == ParseMedia(self, caps, in_type, p, env)
      config == IF FramesDim(in_type) > 0
                THEN SetDim(r.config, FramesDim(in_type), r.self.frames_per_tensor)
                ELSE r.config
  IN IF ~r.ok THEN [ok |-> FALSE, self |-> r.self]
     ELSE IF ~gst_tensors_config_validate(config) THEN [ok |-> FALSE, self |-> r.self]
     ELSE IF ~MatchesDeclared(r.self, config) THEN [ok |-> FALSE, self |-> r.self]
     ELSE [ok |-> TRUE,
           self |-> [r.self EXCEPT !.in_media_type = in_type,
                                   !.tensors_configured = TRUE,
                                   !.tensors_config = config]]

\* an update that never sets the caps of the src pad
update_caps_never(self, curr_caps, p) ==
  [caps |-> curr_caps, set_caps |-> 0]

\* an update that sets the caps of the src pad whatever they are
update_caps_always(self, curr_caps, p) ==
  [caps |-> gst_tensor_pad_caps_from_config(p, self.tensors_config),
   set_caps |-> 1]

\* gst_tensor_converter_update_caps: the new current caps of the src pad and
\* the number of gst_pad_set_caps calls made
gst_tensor_converter_update_caps(self, curr_caps, p) ==
  LET out_caps == gst_tensor_pad_caps_from_config(p, self.tensors_config)
  IN IF curr_caps = NoCaps \/ curr_caps # out_caps
     THEN [caps |-> out_caps, set_caps |-> 1]
     ELSE [caps |-> curr_caps, set_caps |-> 0]

(***************************************************************************)
(* GstAdapter: a queue of pushed buffers, the bytes of the head buffer     *)
(* already consumed (skip), and the last timestamp seen with the byte      *)
(* distance from it.  A queued buffer remembers, for the properties, the   *)
(* number of its first byte in its substream and its frame count.          *)
(***************************************************************************)
\* gst_adapter_new / gst_adapter_clear: an adapter with nothing queued
EmptyAdapter ==
  [queue |-> <<>>, skip |-> 0, pts |-> GST_CLOCK_TIME_NONE, pts_distance |-> 0]

\* a reset that keeps what the adapters hold
reset_keeping_adapters(self) ==
  [self EXCEPT !.have_segment = FALSE,
               !.need_segment = FALSE,
               !.segment = TimeSegment,
               !.old_timestamp = GST_CLOCK_TIME_NONE]

\* gst_tensor_converter_reset
gst_tensor_converter_reset(self) ==
  [self EXCEPT !.adapter_table = [k \in DOMAIN self.adapter_table |-> EmptyAdapter],
               !.have_segment = FALSE,
               !.need_segment = FALSE,
               !.segment = TimeSegment,
               !.old_timestamp = GST_CLOCK_TIME_NONE]

RECURSIVE QueueSize(_)
QueueSize(queue) ==
  IF queue = <<>> THEN 0 ELSE Head(queue).size + QueueSize(Tail(queue))

\* gst_adapter_available
gst_adapter_available(a) == QueueSize(a.queue) - a.skip

\* gst_adapter_push: the timestamp is taken from the buffer only when the
\* queue was empty (update_timestamps_and_offset)
gst_adapter_push(a, buf) ==
  IF a.queue = <<>> /\ GST_CLOCK_TIME_IS_VALID(buf.pts)
  THEN [a EXCEPT !.queue = <<buf>>, !.pts = buf.pts, !.pts_distance = 0]
  ELSE [a EXCEPT !.queue = Append(@, buf)]

RECURSIVE FlushLoop(_, _, _, _)
\* the loop of gst_adapter_flush_unchecked: whole head buffers are dropped,
\* each new head buffer with a valid timestamp restarts the distance
FlushLoop(queue, flush, pts, dist) ==
  IF queue # <<>> /\ flush >= Head(queue).size
  THEN LET size == Head(queue).size
           rest == Tail(queue)
       IN IF rest = <<>>
          THEN [queue |-> <<>>, skip |-> flush - size, pts |-> pts,
                pts_distance |-> dist + size + (flush - size)]
          ELSE IF GST_CLOCK_TIME_IS_VALID(Head(rest).pts)
            THEN FlushLoop(rest, flush - size, Head(rest).pts, 0)
            ELSE FlushLoop(rest, flush - size, pts, dist + size)
  ELSE [queue |-> queue, skip |-> flush, pts |-> pts, pts_distance |-> dist + flush]

\* gst_adapter_flush (a, n) for n <= available
gst_adapter_flush(a, n) ==
  FlushLoop(a.queue, n + a.skip, a.pts, a.pts_distance - a.skip)

RECURSIVE TakeBytes(_, _, _)
\* the byte numbers of the first n bytes held by the queue
TakeBytes(queue, skip, n) ==
  IF n = 0 \/ queue = <<>> THEN <<>>
  ELSE LET h == Head(queue)
           cnt == Min(n, h.size - skip)
       IN [i \in 1..cnt |-> h.first + skip + i - 1]
            \o TakeBytes(Tail(queue), 0, n - cnt)

\* gst_tensor_converter_get_adapter / gst_tensor_aggregation_get_adapter:
\* the adapter of a key is created on first use
gst_tensor_converter_get_adapter(self, key) ==
  IF key \in DOMAIN self.adapter_table THEN self.adapter_table[key]
  ELSE EmptyAdapter

(***************************************************************************)
(* The chain function and its private routines.  A routine returns the     *)
(* element as it left it together with what it produced; "abort" stands    *)
(* for the process ending in a failed g_assert or a fault.                 *)
(***************************************************************************)
have_framerate(config) == config.rate_n > 0 /\ config.rate_d > 0

\* gst_util_uint64_scale_int with its argument check: a denominator that is
\* not positive returns G_MAXUINT64 (which reads as GST_CLOCK_TIME_NONE) when
\* GLib's checks are compiled in, and divides by zero when they are not
ScaleChecked(val, num, denom, checks) ==
  IF denom > 0 THEN [abort |-> FALSE, val |-> gst_util_uint64_scale_int(val, num, denom)]
  ELSE IF checks THEN [abort |-> FALSE, val |-> GST_CLOCK_TIME_NONE]
  ELSE [abort |-> TRUE, val |-> GST_CLOCK_TIME_NONE]

\* no source chunk: the buffer did not pass through an adapter
NoSource == [pts |-> GST_CLOCK_TIME_NONE, duration |-> GST_CLOCK_TIME_NONE,
             frames |-> 0, offset |-> 0, stamp |-> GST_CLOCK_TIME_NONE]

\* _gst_tensor_converter_chain_segment: the TIME segment pushed downstream
\* for a pending BYTES segment
_gst_tensor_converter_chain_segment(self, frame_size, checks) ==
  LET config == self.tensors_config
      start == self.segment.start
      scaled == ScaleChecked(start * config.rate_d, GST_SECOND,
                             frame_size * config.rate_n, checks)
      seg == IF have_framerate(config) /\ start > 0
             THEN [format |-> "GST_FORMAT_TIME", start |-> scaled.val]
             ELSE TimeSegment
  IN IF ~self.need_segment
       THEN [abort |-> FALSE, self |-> self, events |-> <<>>]
     ELSE IF have_framerate(config) /\ start > 0 /\ scaled.abort
       THEN [abort |-> TRUE, self |-> self, events |-> <<>>]
     ELSE [abort |-> FALSE,
           self |-> [self EXCEPT !.segment = seg, !.need_segment = FALSE],
           events |-> <<seg>>]

\* a timestamp stage that stamps whatever set-timestamp says
chain_timestamp_always(self, inbuf, frames_in, clock) ==
  LET config == self.tensors_config
      duration ==
        IF ~GST_CLOCK_TIME_IS_VALID(inbuf.duration) /\ have_framerate(config)
        THEN gst_util_uint64_scale_int(frames_in * config.rate_d, GST_SECOND,
                                       config.rate_n)
        ELSE inbuf.duration
      pts ==
        IF ~GST_CLOCK_TIME_IS_VALID(inbuf.pts)
        THEN IF have_framerate(config)
             THEN IF GST_CLOCK_TIME_IS_VALID(self.old_timestamp)
                  THEN self.old_timestamp + duration
                  ELSE self.segment.start
             ELSE IF GST_CLOCK_TIME_IS_VALID(clock) THEN clock
                  ELSE self.segment.start
        ELSE inbuf.pts
  IN [self |-> [self EXCEPT !.old_timestamp = pts],
      inbuf |-> [inbuf EXCEPT !.pts = pts, !.duration = duration]]

\* _gst_tensor_converter_chain_timestamp: clock is the element's running
\* time, or GST_CLOCK_TIME_NONE when the element has no clock
_gst_tensor_converter_chain_timestamp(self, inbuf, frames_in, clock) ==
  LET config == self.tensors_config
      duration ==
        IF self.set_timestamp /\ ~GST_CLOCK_TIME_IS_VALID(inbuf.duration)
             /\ have_framerate(config)
        THEN gst_util_uint64_scale_int(frames_in * config.rate_d, GST_SECOND,
                                       config.rate_n)
        ELSE inbuf.duration
      pts ==
        IF self.set_timestamp /\ ~GST_CLOCK_TIME_IS_VALID(inbuf.pts)
        THEN IF have_framerate(config)
             THEN IF GST_CLOCK_TIME_IS_VALID(self.old_timestamp)
                  THEN self.old_timestamp + duration
                  ELSE self.segment.start
             ELSE IF GST_CLOCK_TIME_IS_VALID(clock) THEN clock
                  ELSE self.segment.start
        ELSE inbuf.pts
  IN [self |-> [self EXCEPT !.old_timestamp = pts],
      inbuf |-> [inbuf EXCEPT !.pts = pts, !.duration = duration]]

RECURSIVE OctetRegions(_, _, _)
\* the loop of the octet split: the memory block of tensor i is shared out
\* of the whole memory at the running offset, which then advances by the
\* size of the tensor
OctetRegions(info, i, offset) ==
  IF i > info.num_tensors THEN <<>>
  ELSE <<[offset |-> offset, size |-> gst_tensor_info_get_size(info.info[i])]>>
         \o OctetRegions(info, i + 1,
                         offset + gst_tensor_info_get_size(info.info[i]))

\* _gst_tensor_converter_chain_octet: a multi-tensor descriptor, or a buffer
\* of several memory blocks, is rebuilt with one memory block per tensor
_gst_tensor_converter_chain_octet(self, buffer) ==
  LET info == self.tensors_config.info
      multi == info.num_tensors > 1
  IN IF multi \/ buffer.n_memory > 1
     THEN IF self.frames_per_tensor # 1
          THEN [abort |-> TRUE, buffer |-> buffer]
          ELSE [abort |-> FALSE,
                buffer |-> [buffer EXCEPT
                              !.n_memory = IF multi THEN info.num_tensors ELSE 1,
                              !.regions = IF multi THEN OctetRegions(info, 1, 0)
                                          ELSE <<>>]]
     ELSE [abort |-> FALSE, buffer |-> buffer]

\* the header written in front of a tensor: the descriptor of the tensor
\* converted to a header, tagged with the media kind of the stream
InjectedHeader(self, _info) ==
  [gst_tensor_info_convert_to_meta(_info) EXCEPT
     !.media_type = IF self.in_media_type \in {"_NNS_VIDEO", "_NNS_AUDIO",
                                                "_NNS_TEXT", "_NNS_OCTET"}
                    THEN self.in_media_type ELSE "_NNS_TENSOR"]

\* _gst_tensor_converter_chain_flex_tensor: one header-prefixed record per
\* tensor of the descriptor
_gst_tensor_converter_chain_flex_tensor(self, buffer) ==
  LET info == self.tensors_config.info
  IN [buffer EXCEPT !.n_memory = info.num_tensors,
                    !.headers = @ + 1,
                    !.meta = [i \in 1..info.num_tensors |->
                                InjectedHeader(self, info.info[i])]]

\* the second half of _gst_tensor_converter_chain_push: a buffer that goes
\* to a flexible peer gets its headers unless the element was told not to
\* append them
PushFlexible(self, octet, curr_caps) ==
  IF octet.abort THEN octet
  ELSE IF ~self.do_not_append_header /\ gst_tensor_pad_caps_is_flexible(curr_caps)
    THEN [abort |-> FALSE,
          buffer |-> _gst_tensor_converter_chain_flex_tensor(self, octet.buffer)]
  ELSE octet

\* _gst_tensor_converter_chain_push: the buffer handed to gst_pad_push; an
\* octet stream is split first
_gst_tensor_converter_chain_push(self, buf, curr_caps) ==
  PushFlexible(self,
               IF self.in_media_type = "_NNS_OCTET"
               THEN _gst_tensor_converter_chain_octet(self, buf)
               ELSE [abort |-> FALSE, buffer |-> buf],
               curr_caps)

\* a timestamp update that does not ask whether the frame rate is known
InterpolatePtsAnyRate(config, frames_in, frame_size, pts, dist) ==
  IF frames_in > 1 /\ GST_CLOCK_TIME_IS_VALID(pts)
  THEN pts + ScaleChecked(dist * config.rate_d, GST_SECOND,
                          config.rate_n * frame_size, TRUE).val
  ELSE pts

\* the timestamp update of the emit loop: the byte distance from the last
\* timestamp is converted to time when the chunk holds several frames and
\* the frame rate is known
InterpolatePts(config, frames_in, frame_size, pts, dist) ==
  IF frames_in > 1 /\ have_framerate(config) /\ GST_CLOCK_TIME_IS_VALID(pts)
  THEN pts + gst_util_uint64_scale_int(dist * config.rate_d, GST_SECOND,
                                       config.rate_n * frame_size)
  ELSE pts

\* the buffer handed downstream, with what the properties need to know of
\* its origin: the byte numbers it holds, the chunk holding its first byte
\* and the chunk, frame counts, frame size and rate of the call that made it,
\* the descriptor and the caps of the src pad in force when it is pushed
OutBuffer(buf, windowed, bytes, src, stamp, inbuf, frames_in, frames_out, frame_size, config, flow) ==
  [size |-> buf.size, pts |-> buf.pts, duration |-> buf.duration,
   key |-> buf.key, n_memory |-> buf.n_memory, headers |-> buf.headers,
   copied |-> buf.copied, windowed |-> windowed, bytes |-> bytes,
   src |-> [src EXCEPT !.stamp = stamp],
   in_duration |-> inbuf.duration, frames_in |-> frames_in,
   frames_out |-> frames_out, frame_size |-> frame_size,
   rate_n |-> config.rate_n, rate_d |-> config.rate_d, flow |-> flow,
   config |-> config, caps |-> NoCaps, data |-> buf.data,
   regions |-> buf.regions, meta |-> buf.meta]

\* the return value of the n-th gst_pad_push of a chain call
FlowOf(n, fail_at) == IF n = fail_at THEN "GST_FLOW_ERROR" ELSE "GST_FLOW_OK"

\* a loop condition that leaves a last whole frame in the adapter
HasFrameStrict(a, out_size, ret) ==
  gst_adapter_available(a) > out_size /\ ret = "GST_FLOW_OK"

\* the condition of the emit loop: a whole output frame is available and
\* the last push succeeded
HasFrame(a, out_size, ret) ==
  gst_adapter_available(a) >= out_size /\ ret = "GST_FLOW_OK"

RECURSIVE EmitLoop(_, _, _, _, _, _, _, _, _, _)
\* the while loop of _gst_tensor_converter_chain_chunk
EmitLoop(self, a, out, inbuf, frames_in, frames_out, frame_size, duration, curr_caps, fail_at) ==
  LET out_size == frames_out * frame_size
      ret == IF out = <<>> THEN "GST_FLOW_OK" ELSE out[Len(out)].flow
  IN IF HasFrame(a, out_size, ret)
     THEN LET pts == InterpolatePts(self.tensors_config, frames_in, frame_size,
                                    a.pts, a.pts_distance)
              head == Head(a.queue)
              src == [pts |-> head.pts, duration |-> head.duration,
                      frames |-> head.frames, offset |-> a.skip,
                      stamp |-> a.pts]
              outbuf == [size |-> out_size, pts |-> pts, duration |-> duration,
                         key |-> inbuf.key, n_memory |-> 1, headers |-> 0,
                         copied |-> FALSE, data |-> <<>>, regions |-> <<>>,
                         meta |-> <<>>]
              pushed == _gst_tensor_converter_chain_push(self, outbuf, curr_caps)
              rec == [OutBuffer(pushed.buffer, TRUE,
                                TakeBytes(a.queue, a.skip, out_size), src, a.pts,
                                inbuf, frames_in, frames_out, frame_size,
                                self.tensors_config, FlowOf(Len(out) + 1, fail_at))
                        EXCEPT !.caps = curr_caps]
          IN IF pushed.abort
             THEN [abort |-> TRUE, adapter |-> gst_adapter_flush(a, out_size),
                   out |-> out]
             ELSE EmitLoop(self, gst_adapter_flush(a, out_size), Append(out, rec),
                           inbuf, frames_in, frames_out, frame_size, duration,
                           curr_caps, fail_at)
     ELSE [abort |-> FALSE, adapter |-> a, out |-> out]

\* a duration that is not scaled
UnscaledDuration(duration, frames_in, frames_out, checks) ==
  [abort |-> FALSE, val |-> duration]

\* the duration of the output frames of one call: the duration of the
\* incoming buffer scaled by frames_out / frames_in
ScaledDuration(duration, frames_in, frames_out, checks) ==
  IF GST_CLOCK_TIME_IS_VALID(duration)
  THEN ScaleChecked(duration, frames_out, frames_in, checks)
  ELSE [abort |-> FALSE, val |-> duration]

\* _gst_tensor_converter_chain_chunk; pushed is the number of bytes pushed to
\* the substream's adapter so far
_gst_tensor_converter_chain_chunk(self, inbuf, frames_in, frames_out, frame_size, curr_caps, env, pushed) ==
  LET adapter == gst_tensor_converter_get_adapter(self, inbuf.key)
      scaled == ScaledDuration(inbuf.duration, frames_in, frames_out, env.checks)
      duration == scaled.val
      chunk == [pts |-> inbuf.pts, duration |-> inbuf.duration,
                size |-> inbuf.size, first |-> pushed + 1, frames |-> frames_in]
      filled == gst_adapter_push(adapter, chunk)
      stored(a) == [self EXCEPT !.adapter_table =
                      [k \in DOMAIN @ \cup {inbuf.key} |->
                         IF k = inbuf.key THEN a ELSE @[k]]]
      loop == EmitLoop(self, filled, <<>>, inbuf, frames_in, frames_out,
                       frame_size, duration, curr_caps, env.fail_at)
  IN IF scaled.abort
       THEN [ret |-> "abort", self |-> self, out |-> <<>>, pushed |-> 0]
     ELSE IF frames_out * frame_size = 0
       THEN [ret |-> "abort", self |-> stored(filled), out |-> <<>>,
             pushed |-> inbuf.size]
     ELSE [ret |-> IF loop.abort THEN "abort"
                   ELSE IF loop.out = <<>> THEN "GST_FLOW_OK"
                   ELSE loop.out[Len(loop.out)].flow,
           self |-> stored(loop.adapter), out |-> loop.out,
           pushed |-> inbuf.size]

(***************************************************************************)
(* The chain function.  An incoming buffer is a record of its size, its    *)
(* timestamps, the substream key its meta carries, its number of memory    *)
(* blocks and, for a flexible tensor stream, the header (meta) and payload *)
(* size of each memory block.                                              *)
(***************************************************************************)
\* result of the media switch: "ok", "error" (goto error) or "abort" (a failed
\* g_assert or a division by zero)
Converted(ret, self, inbuf, frames_in, frame_size, caps, set_caps) ==
  [ret |-> ret, self |-> self, inbuf |-> inbuf, frames_in |-> frames_in,
   frame_size |-> frame_size, caps |-> caps, set_caps |-> set_caps]

\* gst_buffer_new_and_alloc (size) followed by gst_buffer_copy_into (METADATA)
NewBufferLike(buf, size) ==
  [buf EXCEPT !.size = size, !.n_memory = 1, !.copied = TRUE]

\* a row loop that advances the source by the packed row size
CopyRowsPacked(height, size, offset, buf_size) ==
  [k \in 1..(size * height) |-> k - 1]

\* the row loop of the depadding: row d1 of the destination is size bytes
\* of the source from d1 * offset on; a byte read past the end of the source
\* is undefined (Garbage)
Garbage == -1

CopyRows(height, size, offset, buf_size) ==
  [k \in 1..(size * height) |->
     LET d1 == (k - 1) \div size
         src_idx == d1 * offset + ((k - 1) % size)
     IN IF src_idx < buf_size THEN src_idx ELSE Garbage]

\* case _NNS_VIDEO of the media switch
ChainVideo(self, buf, curr_caps, env) ==
  LET t == self.tensors_config.info.info[1]
      type == gst_tensor_get_element_size(t.type)
      color == t.dimension[1]
      width == t.dimension[2]
      height == t.dimension[3]
      frame_size == type * color * width * height
      size == type * color * width
      offset == GST_ROUND_UP_4(size)
      data == CopyRows(height, size, offset, buf.size)
  IN IF self.frame_size = 0 \/ buf.size \div self.frame_size # 1
       THEN Converted("abort", self, buf, 1, frame_size, curr_caps, 0)
     ELSE IF ~self.remove_padding
       THEN Converted("ok", self, buf, 1, frame_size, curr_caps, 0)
     ELSE IF size % 4 = 0
       THEN Converted("abort", self, buf, 1, frame_size, curr_caps, 0)
     ELSE IF env.fault /\ (\E k \in DOMAIN data : data[k] = Garbage)
       THEN Converted("abort", self, buf, 1, frame_size, curr_caps, 0)
     ELSE Converted("ok", self,
                    [NewBufferLike(buf, frame_size) EXCEPT !.data = data], 1,
                    frame_size, curr_caps, 0)

\* case _NNS_AUDIO
ChainAudio(self, buf, curr_caps) ==
  IF self.frame_size = 0
  THEN Converted("abort", self, buf, 1, 0, curr_caps, 0)
  ELSE Converted("ok", self, buf, buf.size \div self.frame_size, self.frame_size,
                 curr_caps, 0)

\* case _NNS_TEXT: the text is truncated or zero-padded to the frame size
ChainText(self, buf, curr_caps) ==
  IF buf.size # self.frame_size
  THEN Converted("ok", self, NewBufferLike(buf, self.frame_size), 1,
                 self.frame_size, curr_caps, 0)
  ELSE Converted("ok", self, buf, 1, self.frame_size, curr_caps, 0)

\* case _NNS_OCTET
ChainOctet(self, buf, curr_caps) ==
  IF gst_tensors_config_is_flexible(self.tensors_config)
  THEN Converted("ok",
                 [self EXCEPT !.tensors_config = SetDim(@, 1, buf.size)],
                 buf, 1, buf.size, curr_caps, 0)
  ELSE IF self.frame_size = 0 \/ buf.size % self.frame_size # 0
    THEN Converted("abort", self, buf, 1, self.frame_size, curr_caps, 0)
  ELSE Converted("ok", self, buf, buf.size \div self.frame_size, self.frame_size,
                 curr_caps, 0)

RECURSIVE FlexPayload(_, _)
\* total payload size of the memory blocks from i on
FlexPayload(flex, i) ==
  IF i > Len(flex) THEN 0 ELSE flex[i].payload + FlexPayload(flex, i + 1)

\* a loop over the memory blocks that compares the first block only
PayloadMismatchFirst(flex) ==
  flex # <<>> /\ flex[1].payload # gst_tensor_info_get_size(gst_tensor_meta_info_convert(flex[1].meta))

\* the loop over the memory blocks finds one whose size without the header
\* is not the size its header describes
PayloadMismatch(flex) ==
  \E i \in 1..Len(flex) :
    flex[i].payload # gst_tensor_info_get_size(gst_tensor_meta_info_convert(flex[i].meta))

\* a loop over the memory blocks that reads the header of the block after
\* the one it describes
ParsedHeadersNextBlock(self, flex) ==
  [info |-> [num_tensors |-> Len(flex), format |-> "static",
             info |-> [i \in 1..MaxTensors |->
                         IF i + 1 <= Len(flex)
                         THEN gst_tensor_meta_info_convert(flex[i + 1].meta)
                         ELSE EmptyTensor]],
   rate_n |-> self.tensors_config.rate_n,
   rate_d |-> self.tensors_config.rate_d]

\* the descriptor case _NNS_TENSOR builds from the memory blocks of a
\* buffer: static, one tensor per block as its header describes it, the frame
\* rate of the current descriptor
ParsedHeaders(self, flex) ==
  [info |-> [num_tensors |-> Len(flex), format |-> "static",
             info |-> [i \in 1..MaxTensors |->
                         IF i <= Len(flex)
                         THEN gst_tensor_meta_info_convert(flex[i].meta)
                         ELSE EmptyTensor]],
   rate_n |-> self.tensors_config.rate_n,
   rate_d |-> self.tensors_config.rate_d]

\* a case _NNS_TENSOR that takes the recovered descriptor whether or not a
\* descriptor is declared
ChainTensorDrifting(self, buf, curr_caps, p) ==
  LET n == Len(buf.flex)
      tmp == ParsedHeaders(self, buf.flex)
      inbuf == [buf EXCEPT !.size = FlexPayload(buf.flex, 1), !.n_memory = n]
      s1 == [self EXCEPT !.tensors_config = tmp]
      upd == gst_tensor_converter_update_caps(s1, curr_caps, p)
  IN IF PayloadMismatch(buf.flex)
       THEN Converted("error", self, buf, 1, self.frame_size, curr_caps, 0)
     ELSE IF gst_tensors_config_is_equal(self.tensors_config, tmp)
       THEN Converted("ok", self, inbuf, 1, self.frame_size, curr_caps, 0)
     ELSE Converted("ok", s1, inbuf, 1, self.frame_size, upd.caps, upd.set_caps)

\* case _NNS_TENSOR: the descriptor is read from the headers of the buffer
ChainTensor(self, buf, curr_caps, p) ==
  LET n == Len(buf.flex)
      tmp == ParsedHeaders(self, buf.flex)
      inbuf == [buf EXCEPT !.size = FlexPayload(buf.flex, 1), !.n_memory = n]
      s1 == [self EXCEPT !.tensors_config = tmp]
      upd == gst_tensor_converter_update_caps(s1, curr_caps, p)
  IN IF PayloadMismatch(buf.flex)
       THEN Converted("error", self, buf, 1, self.frame_size, curr_caps, 0)
     ELSE IF gst_tensors_config_is_equal(self.tensors_config, tmp)
       THEN Converted("ok", self, inbuf, 1, self.frame_size, curr_caps, 0)
     ELSE IF gst_tensors_info_validate(self.tensors_info)
       THEN Converted("error", self, buf, 1, self.frame_size, curr_caps, 0)
     ELSE Converted("ok", s1, inbuf, 1, self.frame_size, upd.caps, upd.set_caps)

CustomConfigAlwaysSame(self, new_config) == TRUE

\* the comparison of the descriptor a custom conversion returned with the
\* current one
CustomConfigSame(self, new_config) ==
  gst_tensors_config_is_equal(self.tensors_config, new_config)

\* case _NNS_MEDIA_ANY: env.conv_ok, env.conv_size and env.conv_config are the
\* answer of the custom callback or of the external converter; the buffer
\* it returns holds one memory block per tensor of its descriptor, each with
\* its header when the descriptor is flexible
ChainCustom(self, buf, curr_caps, p, env) ==
  LET inbuf == [NewBufferLike(buf, env.conv_size) EXCEPT
                  !.n_memory = env.conv_config.info.num_tensors,
                  !.headers = IF gst_tensors_config_is_flexible(env.conv_config)
                              THEN 1 ELSE 0]
      s1 == [self EXCEPT !.do_not_append_header =
                           gst_tensors_config_is_flexible(env.conv_config)]
      s2 == [s1 EXCEPT !.tensors_config = env.conv_config]
      upd == gst_tensor_converter_update_caps(s2, curr_caps, p)
      converted ==
        IF CustomConfigSame(self, env.conv_config)
        THEN Converted("ok", s1, inbuf, 1, env.conv_size, curr_caps, 0)
        ELSE Converted("ok", s2, inbuf, 1, env.conv_size, upd.caps, upd.set_caps)
      error == Converted("error", self, buf, 1, self.frame_size, curr_caps, 0)
  IN IF self.mode = "_CONVERTER_MODE_CUSTOM_CODE"
       THEN IF self.custom = NULL \/ ~env.conv_ok THEN error ELSE converted
     ELSE IF self.externalConverter # NULL
       THEN IF ~env.conv_ok THEN error ELSE converted
     ELSE error

\* the switch on in_media_type
ChainConvert(self, buf, curr_caps, p, env) ==
  CASE self.in_media_type = "_NNS_VIDEO" -> ChainVideo(self, buf, curr_caps, env)
    [] self.in_media_type = "_NNS_AUDIO" -> ChainAudio(self, buf, curr_caps)
    [] self.in_media_type = "_NNS_TEXT" -> ChainText(self, buf, curr_caps)
    [] self.in_media_type = "_NNS_OCTET" -> ChainOctet(self, buf, curr_caps)
    [] self.in_media_type = "_NNS_TENSOR" -> ChainTensor(self, buf, curr_caps, p)
    [] self.in_media_type = "_NNS_MEDIA_ANY" ->
         ChainCustom(self, buf, curr_caps, p, env)
    [] OTHER -> Converted("error", self, buf, 1, self.frame_size, curr_caps, 0)

\* result of the chain function: the flow return (or "abort"), the element,
\* the caps of the src pad with the number of caps updates made, the buffers
\* and events pushed downstream, and the number of bytes the substream took
Chained(ret, self, caps, set_caps, out, events, taken, call) ==
  [ret |-> ret, self |-> self, caps |-> caps, set_caps |-> set_caps,
   out |-> out, events |-> events, taken |-> taken, call |-> call]

\* how a chain call went: through the windowing engine or not, with the
\* frame counts and the frame size it worked with and the duration of the
\* buffer that reached the engine
Call(engine, frames_in, frames_out, frame_size, duration) ==
  [engine |-> engine, frames_in |-> frames_in, frames_out |-> frames_out,
   frame_size |-> frame_size, duration |-> duration]

NoCall == Call(FALSE, 0, 0, 0, GST_CLOCK_TIME_NONE)

\* the tail of the chain function after the media switch: segment, timestamp,
\* then the direct push or the windowing engine.  arrived is the number of
\* bytes the substream has received so far; the bytes of this buffer are
\* numbered from arrived + 1
ChainForward(self, c, curr_caps, env, arrived) ==
  LET seg == _gst_tensor_converter_chain_segment(c.self, c.frame_size, env.checks)
      ts == _gst_tensor_converter_chain_timestamp(seg.self, c.inbuf, c.frames_in,
                                                  env.clock)
      frames_out == self.frames_per_tensor
      direct == _gst_tensor_converter_chain_push(ts.self, ts.inbuf, c.caps)
      rec == [OutBuffer(direct.buffer, FALSE,
                        [i \in 1..ts.inbuf.size |->
                           IF ts.inbuf.data = <<>> THEN arrived + i
                           ELSE IF ts.inbuf.data[i] = Garbage THEN Garbage
                           ELSE arrived + 1 + ts.inbuf.data[i]], NoSource,
                        GST_CLOCK_TIME_NONE, ts.inbuf, c.frames_in, frames_out,
                        c.frame_size, ts.self.tensors_config, FlowOf(1, env.fail_at))
                EXCEPT !.caps = c.caps]
      chunk == _gst_tensor_converter_chain_chunk(ts.self, ts.inbuf, c.frames_in,
                 frames_out, c.frame_size, c.caps, env, arrived)
      call(engine) == Call(engine, c.frames_in, frames_out, c.frame_size,
                           ts.inbuf.duration)
  IN IF seg.abort
       THEN Chained("abort", self, c.caps, c.set_caps, <<>>, <<>>, 0, NoCall)
     ELSE IF c.frames_in = frames_out
       THEN IF direct.abort
            THEN Chained("abort", ts.self, c.caps, c.set_caps, <<>>, seg.events,
                         0, call(FALSE))
            ELSE Chained(rec.flow, ts.self, c.caps, c.set_caps, <<rec>>,
                         seg.events, ts.inbuf.size, call(FALSE))
     ELSE Chained(chunk.ret, chunk.self, c.caps, c.set_caps, chunk.out,
                  seg.events, chunk.pushed, call(TRUE))

gst_tensor_converter_chain(self, buf, curr_caps, p, env, arrived) ==
  LET c == ChainConvert(self, buf, curr_caps, p, env)
  IN IF buf.size = 0 /\ env.checks
       THEN Chained("GST_FLOW_ERROR", self, curr_caps, 0, <<>>, <<>>, 0, NoCall)
     ELSE IF ~self.tensors_configured
       THEN Chained("abort", self, curr_caps, 0, <<>>, <<>>, 0, NoCall)
     ELSE IF c.ret = "abort"
       THEN Chained("abort", self, curr_caps, 0, <<>>, <<>>, 0, NoCall)
     ELSE IF c.ret = "error"
       THEN Chained("GST_FLOW_ERROR", self, curr_caps, 0, <<>>, <<>>, 0, NoCall)
     ELSE ChainForward(self, c, curr_caps, env, arrived)

(***************************************************************************)
(* Property setter.  A property string is modelled by the tensors it       *)
(* names; gst_tensors_info_parse_dimensions_string and                     *)
(* gst_tensors_info_parse_types_string write the first num tensors.        *)
(***************************************************************************)
\* the dimensions an input-dim string names
ParseDimensions(str) ==
  CASE str = "2" -> <<Dim(<<2>>)>>
    [] str = "2,2" -> <<Dim(<<2>>), Dim(<<2>>)>>
    [] OTHER -> <<>>

\* the types an input-type string names
ParseTypes(str) ==
  CASE str = "uint8" -> <<"_NNS_UINT8">>
    [] str = "uint8,uint8" -> <<"_NNS_UINT8", "_NNS_UINT8">>
    [] OTHER -> <<>>

\* case PROP_INPUT_DIMENSION
SetInputDimension(self, str) ==
  LET dims == ParseDimensions(str)
      num == Len(dims)
  IN [self EXCEPT !.tensors_info.num_tensors = num,
                  !.tensors_info.info =
                    [i \in 1..MaxTensors |->
                       [@[i] EXCEPT !.dimension =
                          IF i <= num THEN dims[i] ELSE ZeroDim]]]

\* case PROP_INPUT_TYPE
SetInputType(self, str) ==
  LET types == ParseTypes(str)
      num == Len(types)
  IN [self EXCEPT !.tensors_info.num_tensors = num,
                  !.tensors_info.info =
                    [i \in 1..MaxTensors |->
                       [@[i] EXCEPT !.type =
                          IF i <= num THEN types[i] ELSE _NNS_END]]]

\* case PROP_FRAMES_PER_TENSOR
SetFramesPerTensor(self, n) == [self EXCEPT !.frames_per_tensor = n]

\* case PROP_SET_TIMESTAMP
SetSetTimestamp(self, b) == [self EXCEPT !.set_timestamp = b]

\* case PROP_MODE: param is the sequence of the parts g_strsplit_set gives
SetMode(self, param) ==
  LET cleared == [self EXCEPT !.custom = NULL]
      named == [cleared EXCEPT !.mode_option = param[2]]
  IN IF Len(param) < 2 THEN cleared
     ELSE IF param[1] = "custom-code"
       THEN [named EXCEPT !.mode = "_CONVERTER_MODE_CUSTOM_CODE",
                          !.custom = get_custom_subplugin(param[2]),
                          !.custom_data =
                            IF get_custom_subplugin(param[2]) = NULL THEN @
                            ELSE get_custom_subplugin(param[2])]
     ELSE IF param[1] = "custom-script"
       THEN [named EXCEPT !.mode = "_CONVERTER_MODE_CUSTOM_SCRIPT",
                          !.ext_fw = "python3"]
     ELSE named

(***************************************************************************)
(* The element in its pipeline.                                            *)
(***************************************************************************)
VARIABLES
  self,       \* the fields of GstTensorConverter
  srcpad,     \* gst_pad_get_current_caps (self->srcpad), NoCaps when NULL
  peer,       \* what the downstream neighbor accepts
  count,      \* operations made so far: property sets, caps events, other
              \* events and state changes, buffers
  stream,     \* per substream key: bytes received (arrived), received before
              \* the last reset (base), pushed downstream since (emitted)
  published,  \* the descriptor of the last caps update, NoConfig before the
              \* first
  last,       \* the last operation: its kind, return value, caps updates made,
              \* buffers and events pushed, bytes the adapter held before it,
              \* the caps of a caps event, the memory blocks of a flexible
              \* tensor buffer, the answer of a custom conversion
  aborted,    \* the process was ended by a failed assertion or a fault
  writer      \* a second context inside gst_tensor_converter_set_property:
              \* the statement it is at, the value it writes and the element
              \* as it was when the call began; NoWrite when there is none

vars ==
  <<subplugins, writer, self, srcpad, peer, count, stream, published, last,
    aborted>>

NoWrite == [pc |-> 0]

\* bounds on the operations of one run
MaxSets == 3
MaxCaps == 2
MaxEvents == 1

Keys == 0..MaxKey

\* no descriptor was published yet
NoConfig == [published |-> FALSE]

\* no custom conversion was asked for
NoConv == [ok |-> FALSE, config |-> NoConfig]

Last(op, ret, set_caps, out, events, key, held, call) ==
  [op |-> op, ret |-> ret, set_caps |-> set_caps, out |-> out,
   events |-> events, key |-> key, held |-> held, call |-> call,
   caps |-> NoCaps, flex |-> <<>>, conv |-> NoConv]

\* an operation that is no chain call
Did(op, ret, set_caps, events) ==
  Last(op, ret, set_caps, <<>>, events, 0, 0, NoCall)

Init ==
  /\ subplugins = ExternalConverters
  /\ writer = NoWrite
  /\ self = gst_tensor_converter_init
  /\ srcpad = NoCaps
  /\ peer \in PeerSet
  /\ count = [set |-> 0, caps |-> 0, ev |-> 0, buf |-> 0]
  /\ stream = [k \in Keys |-> [arrived |-> 0, base |-> 0, emitted |-> 0]]
  /\ published = NoConfig
  /\ last = Did("init", "TRUE", 0, <<>>)
  /\ aborted = FALSE

\* values the application gives to the properties
DimensionStrings == {"2", "2,2"}
TypeStrings == {"uint8", "uint8,uint8"}
FramesPerTensorValues == {1, 2}
ModeStrings ==
  {<<"custom-code", "cb">>, <<"custom-code", "nocb">>,
   <<"custom-script", "conv.py">>, <<"custom-code">>}

\* g_object_set: one property is written
SetProperty(after) ==
  /\ ~aborted
  /\ count.set < MaxSets
  /\ self' = after
  /\ count' = [count EXCEPT !.set = @ + 1]
  /\ last' = Did("set", "TRUE", 0, <<>>)
  /\ UNCHANGED <<subplugins, writer, srcpad, peer, stream, published, aborted>>

SetPropInputDimension == \E str \in DimensionStrings :
  SetProperty(SetInputDimension(self, str))

SetPropInputType == \E str \in TypeStrings :
  SetProperty(SetInputType(self, str))

SetPropFramesPerTensor == \E n \in FramesPerTensorValues :
  SetProperty(SetFramesPerTensor(self, n))

SetPropMode == \E param \in ModeStrings :
  SetProperty(SetMode(self, param))

\* the collaborators' answers that a caps event can depend on
NegotiationEnvFor(caps) ==
  IF SelectMediaType(self, caps) = "_NNS_MEDIA_ANY" THEN NegotiationEnv
  ELSE {[out_ok |-> TRUE, out_config |-> CHOOSE c \in ExtConfigs : TRUE,
         open_ret |-> 0]}

\* gst_tensor_converter_sink_event, case GST_EVENT_CAPS
CapsEvent(CapsSet) == \E caps \in CapsSet : \E env \in NegotiationEnvFor(caps) :
  LET r == gst_tensor_converter_parse_caps(self, caps, peer, env)
      upd == gst_tensor_converter_update_caps(r.self, srcpad, peer)
  IN /\ ~aborted
     /\ count.caps < MaxCaps
     /\ self' = r.self
     /\ count' = [count EXCEPT !.caps = @ + 1]
     /\ IF r.ok
        THEN /\ srcpad' = upd.caps
             /\ published' = IF upd.set_caps > 0 THEN r.self.tensors_config
                             ELSE published
             /\ last' = [Did("caps", "TRUE", upd.set_caps, <<>>) EXCEPT !.caps = caps]
        ELSE /\ UNCHANGED <<srcpad, published>>
             /\ last' = [Did("caps", "FALSE", 0, <<>>) EXCEPT !.caps = caps]
     /\ UNCHANGED <<subplugins, writer, peer, stream, aborted>>

\* what a reset means for the substreams: the bytes received so far are
\* before the reset
ResetStreams ==
  [k \in Keys |-> [stream[k] EXCEPT !.base = stream[k].arrived, !.emitted = 0]]

\* gst_tensor_converter_sink_event, case GST_EVENT_FLUSH_STOP
FlushStop ==
  /\ ~aborted
  /\ count.ev < MaxEvents
  /\ count' = [count EXCEPT !.ev = @ + 1]
  /\ self' = gst_tensor_converter_reset(self)
  /\ stream' = ResetStreams
  /\ last' = Did("flush", "TRUE", 0, <<>>)
  /\ UNCHANGED <<subplugins, writer, srcpad, peer, published, aborted>>

\* gst_tensor_converter_change_state: the element is reset when it goes
\* from READY to PAUSED and when it comes back
ChangeState == \E transition \in {"READY_TO_PAUSED", "PAUSED_TO_READY"} :
  /\ ~aborted
  /\ count.ev < MaxEvents
  /\ count' = [count EXCEPT !.ev = @ + 1]
  /\ self' = gst_tensor_converter_reset(self)
  /\ stream' = ResetStreams
  /\ last' = Did(transition, "TRUE", 0, <<>>)
  /\ UNCHANGED <<subplugins, writer, srcpad, peer, published, aborted>>

\* segments the upstream neighbor announces
Segments ==
  {TimeSegment, [format |-> "GST_FORMAT_BYTES", start |-> 0],
   [format |-> "GST_FORMAT_BYTES", start |-> 4],
   [format |-> "GST_FORMAT_DEFAULT", start |-> 0]}

\* gst_tensor_converter_sink_event, case GST_EVENT_SEGMENT: the segment is
\* stored before its format is looked at; a TIME segment is forwarded, a
\* BYTES segment is left to the chain function, any other is refused
SinkEventSegment(seg, max) ==
  /\ ~aborted
  /\ count.ev < max
  /\ count' = [count EXCEPT !.ev = @ + 1]
  /\ self' = [self EXCEPT !.segment = seg, !.have_segment = TRUE,
                          !.need_segment =
                            IF seg.format = "GST_FORMAT_BYTES" THEN TRUE ELSE @]
  /\ last' = Did("segment",
                 IF seg.format \in {"GST_FORMAT_TIME", "GST_FORMAT_BYTES"}
                 THEN "TRUE" ELSE "FALSE",
                 0, IF seg.format = "GST_FORMAT_TIME" THEN <<seg>> ELSE <<>>)
  /\ UNCHANGED <<subplugins, writer, srcpad, peer, stream, published, aborted>>

SegmentEvent == \E seg \in Segments : SinkEventSegment(seg, MaxEvents)

(***************************************************************************)
(* Buffers the upstream neighbor delivers, and what the surroundings       *)
(* answer while one is processed.                                          *)
(***************************************************************************)
\* copied: the payload is in memory allocated for this buffer, not a view
\* of the memory of the buffer that arrived
\* headers: the number of headers in front of each tensor of the buffer
\* meta: the headers the element put in front of the tensors, in order
\* regions: offset and size of each memory block shared out of the buffer's
\* memory by the octet split; empty when the memory was not split
\* data: for a buffer made by copying rows out of the source buffer, the
\* offset in the source of each of its bytes; empty otherwise
Buffer(size, pts, duration, key, n_memory, flex) ==
  [size |-> size, pts |-> pts, duration |-> duration, key |-> key,
   n_memory |-> n_memory, copied |-> FALSE, headers |-> 0, flex |-> flex,
   data |-> <<>>, regions |-> <<>>, meta |-> <<>>]

\* the header an upstream element wrote in front of a tensor
FlexHeader(type, dims) == gst_tensor_info_convert_to_meta(Tensor(type, dims))

\* memory blocks of a flexible tensor buffer: header and payload size
FlexBlocks ==
  {<< [meta |-> FlexHeader("_NNS_UINT8", <<2>>), payload |-> 2] >>,
   << [meta |-> FlexHeader("_NNS_UINT8", <<2>>), payload |-> 3] >>,
   << [meta |-> FlexHeader("_NNS_UINT8", <<4>>), payload |-> 4] >>,
   << [meta |-> FlexHeader("_NNS_UINT8", <<2>>), payload |-> 2],
      [meta |-> FlexHeader("_NNS_UINT8", <<2>>), payload |-> 2] >>,
   << [meta |-> FlexHeader("_NNS_UINT8", <<2>>), payload |-> 2],
      [meta |-> FlexHeader("_NNS_UINT8", <<2>>), payload |-> 3] >>}

\* the time of the n-th buffer of the run
TimeOf(n) == n * BufferInterval

\* the duration of one frame of a buffer
FrameTime == 1

\* what gst_pad_push, GLib and the clock answer: which push fails (0: none),
\* whether GLib checks its arguments, the running time; the answer of a
\* custom conversion; whether a read past the end of the input buffer ends
\* the process
ChainEnv(fail_at, checks, clock, conv_ok, conv_size, conv_config) ==
  [fail_at |-> fail_at, checks |-> checks, clock |-> clock,
   conv_ok |-> conv_ok, conv_size |-> conv_size, conv_config |-> conv_config,
   fault |-> FALSE]

\* descriptors a custom callback or an external converter reports
ConvConfigs ==
  {StaticPeer.config,
   [info |-> [FlexibleOctetInfo EXCEPT !.info[1].dimension = Dim(<<2>>)],
    rate_n |-> 0, rate_d |-> 1]}

\* buffers of a negotiated stream: one frame with known timestamps; a
\* flexible tensor buffer for a tensor stream
NegotiatedBuffers ==
  LET n == count.buf
      size == IF self.frame_size > 0 THEN self.frame_size ELSE 2
  IN IF self.in_media_type = "_NNS_TENSOR"
     THEN {Buffer(FlexPayload(f, 1), TimeOf(n), FrameTime, 0, Len(f), f) :
             f \in FlexBlocks}
     ELSE {Buffer(size, TimeOf(n), FrameTime, 0, m, <<>>) :
             m \in IF self.in_media_type = "_NNS_OCTET" THEN {1, 2} ELSE {1}}

NegotiatedEnvs(buf) ==
  {[ChainEnv(0, TRUE, GST_CLOCK_TIME_NONE, ok, 2, cfg) EXCEPT !.fault = f] :
     ok \in IF self.in_media_type = "_NNS_MEDIA_ANY" THEN BOOLEAN ELSE {TRUE},
     cfg \in IF self.in_media_type = "_NNS_MEDIA_ANY" THEN ConvConfigs
             ELSE {StaticPeer.config},
     f \in IF self.in_media_type = "_NNS_VIDEO" /\ self.remove_padding
           THEN BOOLEAN ELSE {FALSE}}

RECURSIVE SumSize(_, _)
SumSize(out, i) == IF i > Len(out) THEN 0 ELSE out[i].size + SumSize(out, i + 1)

\* the number of bytes of the buffers pushed downstream
PushedBytes(out) == SumSize(out, 1)

\* the chain function of the sink pad is called with one buffer
Chain(buf, env, max) ==
  LET k == buf.key
      held == gst_adapter_available(gst_tensor_converter_get_adapter(self, k))
      r == gst_tensor_converter_chain(self, buf, srcpad, peer, env,
                                      stream[k].arrived)
  IN /\ ~aborted
     /\ count.buf < max
     /\ count' = [count EXCEPT !.buf = @ + 1]
     /\ last' = [Last("chain", r.ret, r.set_caps, r.out, r.events, k, held,
                       r.call)
                    EXCEPT !.flex = buf.flex,
                           !.conv = IF self.in_media_type = "_NNS_MEDIA_ANY"
                                    THEN [ok |-> env.conv_ok,
                                          config |-> env.conv_config]
                                    ELSE NoConv]
     /\ IF r.ret = "abort"
        THEN /\ aborted' = TRUE
             /\ UNCHANGED <<self, srcpad, stream, published>>
        ELSE /\ self' = r.self
             /\ srcpad' = r.caps
             /\ published' = IF r.set_caps > 0 THEN r.self.tensors_config
                             ELSE published
             /\ stream' = [stream EXCEPT ![k].arrived = @ + r.taken,
                                         ![k].emitted = @ + PushedBytes(r.out)]
             /\ UNCHANGED aborted
     /\ UNCHANGED <<subplugins, writer, peer>>

\* buffers of one run of the negotiation
MaxNegotiatedBuffers == 1

ChainBuffer ==
  \E buf \in NegotiatedBuffers : \E env \in NegotiatedEnvs(buf) :
    Chain(buf, env, MaxNegotiatedBuffers)

CapsEventAny == CapsEvent(CapsUniverse)

\* negotiation: the application configures the element, the upstream
\* neighbor announces its media, and a first buffer arrives
Next ==
  \/ SetPropInputDimension
  \/ SetPropInputType
  \/ SetPropFramesPerTensor
  \/ SetPropMode
  \/ CapsEventAny
  \/ ChainBuffer

Spec == Init /\ [][Next]_vars

(***************************************************************************)
(* Streaming: the element is negotiated, buffers of one to MaxFrames       *)
(* frames arrive on the substreams, and the stream is flushed, restarted   *)
(* and re-segmented in between.                                            *)
(***************************************************************************)
AudioStream == Caps("audio/x-raw", "S16", 0, 0, 1, TRUE, 1000, 1)
OctetStream == Caps("application/octet-stream", "", 0, 0, 0, FALSE, 0, 0)

\* pipelines: the media of the upstream neighbor, frames-per-tensor and
\* set-timestamp; the octet stream declares its tensor with input-dim and
\* input-type
StreamSetups ==
  [caps : {AudioStream, OctetStream}, frames : {2}, stamp : BOOLEAN]
    \cup {[caps |-> AudioStream, frames |-> 1, stamp |-> TRUE]}

\* the element after the properties of the setup are set and its caps event
\* is handled
Negotiated(setup) ==
  LET s1 == SetSetTimestamp(
              SetFramesPerTensor(gst_tensor_converter_init, setup.frames),
              setup.stamp)
      s2 == IF setup.caps = OctetStream
            THEN SetInputType(SetInputDimension(s1, "2"), "uint8")
            ELSE s1
      env == CHOOSE e \in NegotiationEnv : TRUE
  IN gst_tensor_converter_parse_caps(s2, setup.caps, AnyPeer, env).self

InitStream ==
  \E setup \in StreamSetups :
    /\ subplugins = ExternalConverters
    /\ writer = NoWrite
    /\ self = Negotiated(setup)
    /\ srcpad = gst_tensor_converter_update_caps(self, NoCaps, AnyPeer).caps
    /\ peer = AnyPeer
    /\ count = [set |-> 0, caps |-> 0, ev |-> 0, buf |-> 0]
    /\ stream = [k \in Keys |-> [arrived |-> 0, base |-> 0, emitted |-> 0]]
    /\ published = self.tensors_config
    /\ last = Did("caps", "TRUE", 1, <<>>)
    /\ aborted = FALSE

\* buffers of the stream: 1..MaxFrames frames on the substream 0, with or
\* without timestamp and duration; a buffer shorter than a frame; single
\* frames on the other substreams
StreamBuffers ==
  LET n == count.buf
      fs == self.frame_size
      Frames(f, pts, duration) == Buffer(f * fs, pts, duration, 0, 1, <<>>)
  IN {Frames(f, TimeOf(n), f * FrameTime) : f \in 1..MaxFrames}
       \cup {Frames(f, GST_CLOCK_TIME_NONE, f * FrameTime) : f \in 1..MaxFrames}
       \cup {Frames(f, TimeOf(n), GST_CLOCK_TIME_NONE) : f \in 1..MaxFrames}
       \cup {Buffer(fs - 1, TimeOf(n), FrameTime, 0, 1, <<>>)}
       \cup {Buffer(fs, TimeOf(n), FrameTime, k, 1, <<>>) : k \in Keys \ {0}}

\* the first push may fail; GLib may be built without its checks, which
\* shows when a denominator is zero; the element may have no clock, which
\* shows when a timestamp is made up without a frame rate
StreamEnvs(buf) ==
  {ChainEnv(f, c, t, TRUE, 2, StaticPeer.config) :
     f \in {0, 1},
     c \in IF buf.size < self.frame_size \/ self.need_segment
           THEN BOOLEAN ELSE {TRUE},
     t \in IF self.set_timestamp /\ ~GST_CLOCK_TIME_IS_VALID(buf.pts)
                /\ ~have_framerate(self.tensors_config)
           THEN {GST_CLOCK_TIME_NONE, TimeOf(count.buf) + 1}
           ELSE {GST_CLOCK_TIME_NONE}}

ChainStream ==
  \E buf \in StreamBuffers : \E env \in StreamEnvs(buf) :
    Chain(buf, env, MaxBuffers)

NextStream ==
  \/ ChainStream
  \/ FlushStop
  \/ ChangeState
  \/ SegmentEvent

SpecStream == InitStream /\ [][NextStream]_vars

(***************************************************************************)
(* The lookup of an external converter: any registry of up to MaxPlugins   *)
(* converters with distinct names, and findExternalConverter called with   *)
(* an identifier (the name of the media type of the caps, or the name of   *)
(* the script framework in custom-script mode).                            *)
(***************************************************************************)
MaxPlugins == 2
PluginNames == {"flexbuf", "python3", "protobuf"}
Identifiers == {"other/flexbuf", "python3", "flexbuf"}

\* the media types a converter may list; a converter without query_caps
\* lists none
QueryCaps ==
  {<<>>, <<"other/flexbuf">>, <<"python3">>, <<"other/flexbuf", "python3">>}

Registries ==
  {r \in UNION {[1..n -> [name : PluginNames, query_caps : QueryCaps]] :
                  n \in 0..MaxPlugins} :
     \A i, j \in 1..Len(r) : r[i].name = r[j].name => i = j}

InitFind ==
  /\ subplugins \in Registries
  /\ writer = NoWrite
  /\ self = gst_tensor_converter_init
  /\ srcpad = NoCaps
  /\ peer = AnyPeer
  /\ count = [set |-> 0, caps |-> 0, ev |-> 0, buf |-> 0]
  /\ stream = [k \in Keys |-> [arrived |-> 0, base |-> 0, emitted |-> 0]]
  /\ published = NoConfig
  /\ last = Did("init", "TRUE", 0, <<>>)
  /\ aborted = FALSE

\* one call of findExternalConverter; the identifier and the converter
\* found are recorded
FindConverter ==
  \E media_type \in Identifiers :
    /\ last' = [Did("find", findExternalConverter(media_type), 0, <<>>)
                  EXCEPT !.caps = [media |-> media_type]]
    /\ UNCHANGED <<subplugins, writer, self, srcpad, peer, count, stream,
                   published, aborted>>

NextFind == FindConverter

SpecFind == InitFind /\ [][NextFind]_vars

(***************************************************************************)
(* Video negotiation: a fresh element with its default properties, the     *)
(* upstream neighbor announces raw video of any of the formats, widths,    *)
(* heights and frame rates below, possibly twice, and a frame arrives.     *)
(***************************************************************************)
MaxWidth == 5
MaxHeight == 2
VideoFormats == {"GRAY8", "GRAY16_LE", "RGB", "BGRx", "RGBP"}
VideoWidths == {MaxWidth - 2, MaxWidth - 1, MaxWidth}
FrameRates == {<<30, 1>>, <<0, 1>>}

VideoUniverse ==
  {Caps("video/x-raw", f, w, h, 0, TRUE, r[1], r[2]) :
     f \in VideoFormats, w \in VideoWidths, h \in 1..MaxHeight,
     r \in FrameRates}

InitVideo ==
  /\ subplugins = ExternalConverters
  /\ writer = NoWrite
  /\ self = gst_tensor_converter_init
  /\ srcpad = NoCaps
  /\ peer = AnyPeer
  /\ count = [set |-> 0, caps |-> 0, ev |-> 0, buf |-> 0]
  /\ stream = [k \in Keys |-> [arrived |-> 0, base |-> 0, emitted |-> 0]]
  /\ published = NoConfig
  /\ last = Did("init", "TRUE", 0, <<>>)
  /\ aborted = FALSE

CapsEventVideo == CapsEvent(VideoUniverse)

NextVideo ==
  \/ CapsEventVideo
  \/ ChainBuffer

SpecVideo == InitVideo /\ [][NextVideo]_vars

(***************************************************************************)
(* Flexible output: the downstream neighbor takes the flexible format; the *)
(* application may choose a custom mode, the upstream neighbor announces   *)
(* its media, possibly twice, and up to MaxFlexBuffers buffers arrive.     *)
(***************************************************************************)
MaxFlexBuffers == 2

FlexUniverse ==
  {Caps("video/x-raw", "GRAY8", 4, 2, 0, TRUE, 1000, 1),
   Caps("application/octet-stream", "", 0, 0, 0, FALSE, 0, 0)}
    \cup FlexTensorCaps \cup OtherCaps

InitFlex ==
  /\ subplugins = ExternalConverters
  /\ writer = NoWrite
  /\ self = gst_tensor_converter_init
  /\ srcpad = NoCaps
  /\ peer = FlexPeer
  /\ count = [set |-> 0, caps |-> 0, ev |-> 0, buf |-> 0]
  /\ stream = [k \in Keys |-> [arrived |-> 0, base |-> 0, emitted |-> 0]]
  /\ published = NoConfig
  /\ last = Did("init", "TRUE", 0, <<>>)
  /\ aborted = FALSE

CapsEventFlex == CapsEvent(FlexUniverse)

\* a custom conversion may also return a flexible descriptor of two
\* tensors, or a static descriptor whose dimensions it left unset
FlexConvConfigs ==
  ConvConfigs \cup
    {[info |-> [Info(<<Tensor("_NNS_UINT8", <<1>>), Tensor("_NNS_UINT8", <<1>>)>>)
                  EXCEPT !.format = "flexible"],
      rate_n |-> 0, rate_d |-> 1],
     [info |-> Info(<<Tensor("_NNS_UINT8", <<>>)>>), rate_n |-> 0, rate_d |-> 1]}

FlexEnvs(buf) ==
  {ChainEnv(0, TRUE, GST_CLOCK_TIME_NONE, ok, 2, cfg) :
     ok \in IF self.in_media_type = "_NNS_MEDIA_ANY" THEN BOOLEAN ELSE {TRUE},
     cfg \in IF self.in_media_type = "_NNS_MEDIA_ANY" THEN FlexConvConfigs
             ELSE {StaticPeer.config}}

ChainFlex ==
  \E buf \in NegotiatedBuffers : \E env \in FlexEnvs(buf) :
    Chain(buf, env, MaxFlexBuffers)

NextFlex ==
  \/ SetPropMode
  \/ SetPropFramesPerTensor
  \/ CapsEventFlex
  \/ ChainFlex

SpecFlex == InitFlex /\ [][NextFlex]_vars

(***************************************************************************)
(* Headers: an element whose current descriptor is one tensor of any       *)
(* element type and any rank, with sizes up to MaxDimSize, writes the      *)
(* header of that tensor as _gst_tensor_converter_chain_flex_tensor does,  *)
(* and the header is read back as case _NNS_TENSOR of the chain function   *)
(* does.                                                                   *)
(***************************************************************************)
MaxDimSize == 3

HeaderTensors ==
  {Tensor(type, dims) :
     type \in TensorTypes,
     dims \in UNION {[1..r -> 1..MaxDimSize] : r \in 1..MaxRank}}

HeaderMedia == {"_NNS_OCTET", "_NNS_TENSOR"}

InitHeader ==
  /\ subplugins = ExternalConverters
  /\ writer = NoWrite
  /\ \E t \in HeaderTensors, m \in HeaderMedia :
       self = [gst_tensor_converter_init EXCEPT
                 !.tensors_config = [info |-> Info(<<t>>), rate_n |-> 0,
                                     rate_d |-> 1],
                 !.tensors_configured = TRUE,
                 !.in_media_type = m]
  /\ srcpad = NoCaps
  /\ peer = FlexPeer
  /\ count = [set |-> 0, caps |-> 0, ev |-> 0, buf |-> 0]
  /\ stream = [k \in Keys |-> [arrived |-> 0, base |-> 0, emitted |-> 0]]
  /\ published = NoConfig
  /\ last = Did("init", "TRUE", 0, <<>>)
  /\ aborted = FALSE

\* the header of the tensor of the current descriptor is written in front
\* of a memory block
EncodeHeader ==
  LET _info == self.tensors_config.info.info[1]
  IN /\ last' = [Did("encode", "TRUE", 0, <<>>) EXCEPT
                   !.flex = <<[meta |-> InjectedHeader(self, _info),
                               payload |-> gst_tensor_info_get_size(_info)]>>]
     /\ UNCHANGED <<subplugins, writer, self, srcpad, peer, count, stream,
                    published, aborted>>

\* the memory block written last is parsed; the descriptor read from its
\* header is recorded
DecodeHeader ==
  /\ last.op = "encode"
  /\ last' = [Did("decode", "TRUE", 0, <<>>) EXCEPT
                !.flex = last.flex,
                !.conv = [ok |-> TRUE,
                          config |-> ParsedHeaders(self, last.flex)]]
  /\ UNCHANGED <<subplugins, writer, self, srcpad, peer, count, stream,
                 published, aborted>>

NextHeader == EncodeHeader \/ DecodeHeader

SpecHeader == InitHeader /\ [][NextHeader]_vars

(***************************************************************************)
(* Live property change: a second context writes the mode property,        *)
(* statement by statement, while the streaming thread negotiates a media   *)
(* type only a custom conversion understands and converts a buffer.  The   *)
(* setter takes no lock, so a caps event or a chain call may run between   *)
(* any two of its statements.                                              *)
(***************************************************************************)
MaxModeWrites == 2
MaxRaceCaps == 1
MaxRaceBuffers == 1

RaceModeStrings ==
  {<<"custom-code", "cb">>, <<"custom-code", "cb2">>,
   <<"custom-script", "conv.py">>}

\* case PROP_MODE, one statement: the element after the statement at pc and
\* the statement that follows, 0 after the last one
SetModeStep(s, param, pc) ==
  LET ptr == get_custom_subplugin(param[2])
  IN CASE pc = 1 ->
            [self |-> [s EXCEPT !.custom = NULL],
             pc |-> IF Len(param) < 2 THEN 0 ELSE 2]
       [] pc = 2 ->
            [self |-> [s EXCEPT !.mode_option = param[2]],
             pc |-> IF param[1] = "custom-code" THEN 3
                    ELSE IF param[1] = "custom-script" THEN 6 ELSE 0]
       [] pc = 3 ->
            [self |-> [s EXCEPT !.mode = "_CONVERTER_MODE_CUSTOM_CODE"],
             pc |-> IF ptr = NULL THEN 0 ELSE 4]
       [] pc = 4 -> [self |-> [s EXCEPT !.custom = ptr], pc |-> 5]
       [] pc = 5 -> [self |-> [s EXCEPT !.custom_data = ptr], pc |-> 0]
       [] pc = 6 ->
            [self |-> [s EXCEPT !.mode = "_CONVERTER_MODE_CUSTOM_SCRIPT"],
             pc |-> 7]
       [] OTHER -> [self |-> [s EXCEPT !.ext_fw = "python3"], pc |-> 0]

InitRace ==
  /\ subplugins = ExternalConverters
  /\ writer = NoWrite
  /\ self = gst_tensor_converter_init
  /\ srcpad = NoCaps
  /\ peer = AnyPeer
  /\ count = [set |-> 0, caps |-> 0, ev |-> 0, buf |-> 0]
  /\ stream = [k \in Keys |-> [arrived |-> 0, base |-> 0, emitted |-> 0]]
  /\ published = NoConfig
  /\ last = Did("init", "TRUE", 0, <<>>)
  /\ aborted = FALSE

\* g_object_set of the mode property is called in the second context
BeginSetMode ==
  \E param \in RaceModeStrings :
    /\ ~aborted
    /\ writer = NoWrite
    /\ count.set < MaxModeWrites
    /\ writer' = [pc |-> 1, param |-> param, old |-> self]
    /\ count' = [count EXCEPT !.set = @ + 1]
    /\ UNCHANGED <<subplugins, self, srcpad, peer, stream, published, last,
                   aborted>>

\* the second context executes its next statement
WriteStep ==
  /\ ~aborted
  /\ writer # NoWrite
  /\ LET r == SetModeStep(self, writer.param, writer.pc)
     IN /\ self' = r.self
        /\ writer' = IF r.pc = 0 THEN NoWrite ELSE [writer EXCEPT !.pc = r.pc]
  /\ UNCHANGED <<subplugins, srcpad, peer, count, stream, published, last,
                 aborted>>

CapsEventRace == count.caps < MaxRaceCaps /\ CapsEvent(OtherCaps)

ChainRace ==
  \E buf \in NegotiatedBuffers : \E env \in NegotiatedEnvs(buf) :
    Chain(buf, env, MaxRaceBuffers)

NextRace == BeginSetMode \/ WriteStep \/ CapsEventRace \/ ChainRace

SpecRace == InitRace /\ [][NextRace]_vars

(***************************************************************************)
(* Payload memory: a fresh element, an application that may declare the    *)
(* tensor with input-dim and input-type, an upstream neighbor that         *)
(* announces text, video with and without row padding, audio, octets or    *)
(* flexible tensors, and one buffer; a text buffer may be shorter or       *)
(* longer than the declared size.                                          *)
(***************************************************************************)
MaxCopyBuffers == 1

CopyUniverse ==
  TextCaps \cup FlexTensorCaps
    \cup {Caps("video/x-raw", "GRAY8", 4, 2, 0, TRUE, 1000, 1),
          Caps("video/x-raw", "GRAY8", 3, 2, 0, TRUE, 1000, 1),
          Caps("audio/x-raw", "S16", 0, 0, 1, TRUE, 1000, 1),
          Caps("application/octet-stream", "", 0, 0, 0, FALSE, 0, 0)}

InitCopy ==
  /\ subplugins = ExternalConverters
  /\ writer = NoWrite
  /\ self = gst_tensor_converter_init
  /\ srcpad = NoCaps
  /\ peer \in PeerSet
  /\ count = [set |-> 0, caps |-> 0, ev |-> 0, buf |-> 0]
  /\ stream = [k \in Keys |-> [arrived |-> 0, base |-> 0, emitted |-> 0]]
  /\ published = NoConfig
  /\ last = Did("init", "TRUE", 0, <<>>)
  /\ aborted = FALSE

CapsEventCopy == CapsEvent(CopyUniverse)

\* the buffers of a negotiated stream, and text buffers one byte shorter
\* and one byte longer than the frame
CopyBuffers ==
  NegotiatedBuffers \cup
    IF self.in_media_type = "_NNS_TEXT" /\ self.frame_size > 1
    THEN {Buffer(size, TimeOf(count.buf), FrameTime, 0, 1, <<>>) :
            size \in {self.frame_size - 1, self.frame_size + 1}}
    ELSE {}

ChainCopy ==
  \E buf \in CopyBuffers : \E env \in NegotiatedEnvs(buf) :
    Chain(buf, env, MaxCopyBuffers)

NextCopy ==
  \/ SetPropInputDimension
  \/ SetPropInputType
  \/ CapsEventCopy
  \/ ChainCopy

SpecCopy == InitCopy /\ [][NextCopy]_vars

(***************************************************************************)
(* Timestamp stage: a Configured element with set-timestamp on or off, a   *)
(* known or unknown frame rate and a segment starting at 0 or later; the   *)
(* stage is applied to buffers with and without timestamp and duration,    *)
(* holding one or two frames, with and without a clock.  The buffer that   *)
(* went in and the buffer that came out are recorded.                      *)
(***************************************************************************)
MaxStampBuffers == 2
StampTimes == {GST_CLOCK_TIME_NONE, 0, 5}
StampDurations == {GST_CLOCK_TIME_NONE, 1}
StampClocks == {GST_CLOCK_TIME_NONE, 7}
StampRates == {<<0, 1>>, <<1000, 1>>}
StampSegmentStarts == {0, 3}

InitStamp ==
  /\ subplugins = ExternalConverters
  /\ writer = NoWrite
  /\ \E stamp \in BOOLEAN, r \in StampRates, start \in StampSegmentStarts :
       self = [gst_tensor_converter_init EXCEPT
                 !.set_timestamp = stamp,
                 !.in_media_type = "_NNS_OCTET",
                 !.frame_size = 2,
                 !.tensors_configured = TRUE,
                 !.tensors_config = [info |-> Info(<<Tensor("_NNS_UINT8", <<2>>)>>),
                                     rate_n |-> r[1], rate_d |-> r[2]],
                 !.segment = [TimeSegment EXCEPT !.start = start]]
  /\ srcpad = NoCaps
  /\ peer = AnyPeer
  /\ count = [set |-> 0, caps |-> 0, ev |-> 0, buf |-> 0]
  /\ stream = [k \in Keys |-> [arrived |-> 0, base |-> 0, emitted |-> 0]]
  /\ published = NoConfig
  /\ last = Did("init", "TRUE", 0, <<>>)
  /\ aborted = FALSE

\* one call of _gst_tensor_converter_chain_timestamp; last.flex holds the
\* buffer before the call and last.out the buffer after it
Timestamp ==
  \E pts \in StampTimes, duration \in StampDurations, frames_in \in {1, 2},
     clock \in StampClocks :
    LET inbuf == Buffer(frames_in * self.frame_size, pts, duration, 0, 1, <<>>)
        ts == _gst_tensor_converter_chain_timestamp(self, inbuf, frames_in,
                                                    clock)
    IN /\ count.buf < MaxStampBuffers
       /\ count' = [count EXCEPT !.buf = @ + 1]
       /\ self' = ts.self
       /\ last' = [Did("timestamp", "TRUE", 0, <<>>) EXCEPT
                     !.flex = <<inbuf>>, !.out = <<ts.inbuf>>]
       /\ UNCHANGED <<subplugins, writer, srcpad, peer, stream, published,
                      aborted>>

NextStamp == Timestamp

SpecStamp == InitStamp /\ [][NextStamp]_vars

(***************************************************************************)
(* SNPE filter subplugin (tensor_filter_snpe.cc): a configured instance    *)
(* with one or more input and output tensors is invoked with arrays of     *)
(* tensor memories, or with a null array; the runtime's execution call     *)
(* answers with an error code.  self is the snpe_subplugin object.         *)
(***************************************************************************)
MaxInvokes == 2
MaxAddress == 2

\* the answers of Snpe_SNPE_ExecuteUserBuffers (Snpe_ErrorCode_t)
SnpeErrorCodes == {"SNPE_SUCCESS", "SNPE_ERRORCODE_UNKNOWN_EXCEPTION"}

\* a null GstTensorMemory array
NoMemory == <<>>

\* arrays of tensor memories, given by the address of each data block
TensorMemories == [1..MaxTensors -> 1..MaxAddress]

\* a configured snpe_subplugin: the user buffers of the input and output maps
\* exist and have no address yet
ConfiguredSnpe(n_in, n_out) ==
  [configured |-> TRUE,
   inputInfo |-> [num_tensors |-> n_in],
   outputInfo |-> [num_tensors |-> n_out],
   inputMap_h |-> [i \in 1..n_in |-> 0],
   outputMap_h |-> [i \in 1..n_out |-> 0]]

\* snpe_subplugin::invoke: a null array throws; otherwise the address of
\* every input and output user buffer is set and the model is executed;
\* status is the answer of Snpe_SNPE_ExecuteUserBuffers, which is not read
invoke(this, input, output, status) ==
  IF input = NoMemory \/ output = NoMemory
  THEN [self |-> this, executed |-> FALSE, thrown |-> TRUE]
  ELSE [self |-> [this EXCEPT
                    !.inputMap_h = [i \in 1..this.inputInfo.num_tensors |->
                                      input[i]],
                    !.outputMap_h = [i \in 1..this.outputInfo.num_tensors |->
                                       output[i]]],
        executed |-> TRUE, thrown |-> FALSE]

InitSnpe ==
  /\ subplugins = ExternalConverters
  /\ writer = NoWrite
  /\ \E n_in \in 1..MaxTensors, n_out \in 1..MaxTensors :
       self = ConfiguredSnpe(n_in, n_out)
  /\ srcpad = NoCaps
  /\ peer = AnyPeer
  /\ count = [set |-> 0, caps |-> 0, ev |-> 0, buf |-> 0]
  /\ stream = [k \in Keys |-> [arrived |-> 0, base |-> 0, emitted |-> 0]]
  /\ published = NoConfig
  /\ last = Did("init", "return", 0, <<>>)
  /\ aborted = FALSE

\* one call of invoke by the filter element; last.call holds the arrays it
\* was called with, the answer of the runtime and whether the runtime ran
Invoke ==
  \E input \in TensorMemories \cup {NoMemory},
     output \in TensorMemories \cup {NoMemory}, status \in SnpeErrorCodes :
    LET r == invoke(self, input, output, status)
    IN /\ count.buf < MaxInvokes
       /\ count' = [count EXCEPT !.buf = @ + 1]
       /\ self' = r.self
       /\ last' = [Did("invoke", IF r.thrown THEN "throw" ELSE "return", 0,
                       <<>>)
                     EXCEPT !.call = [input |-> input, output |-> output,
                                      status |-> status,
                                      executed |-> r.executed]]
       /\ UNCHANGED <<subplugins, writer, srcpad, peer, stream, published,
                      aborted>>

NextSnpe == Invoke

SpecSnpe == InitSnpe /\ [][NextSnpe]_vars

(***************************************************************************)
(* RawOctet streaming: the element is negotiated on an octet stream with   *)
(* one or two declared tensors, buffers of one or two frames in one or two *)
(* memory blocks arrive, and frames-per-tensor is written in between.      *)
(***************************************************************************)
\* the element after frames-per-tensor, input-dim and input-type are set
\* and the caps event of the octet stream is handled
OctetNegotiation(frames, dims, types) ==
  gst_tensor_converter_parse_caps(
    SetInputType(SetInputDimension(
      SetFramesPerTensor(gst_tensor_converter_init, frames), dims), types),
    OctetStream, AnyPeer, CHOOSE e \in NegotiationEnv : TRUE)

InitOctet ==
  \E frames \in FramesPerTensorValues, dims \in DimensionStrings,
     types \in TypeStrings :
    /\ OctetNegotiation(frames, dims, types).self.tensors_configured
    /\ subplugins = ExternalConverters
    /\ writer = NoWrite
    /\ self = OctetNegotiation(frames, dims, types).self
    /\ srcpad = gst_tensor_converter_update_caps(self, NoCaps, AnyPeer).caps
    /\ peer = AnyPeer
    /\ count = [set |-> 0, caps |-> 0, ev |-> 0, buf |-> 0]
    /\ stream = [k \in Keys |-> [arrived |-> 0, base |-> 0, emitted |-> 0]]
    /\ published = self.tensors_config
    /\ last = Did("caps", "TRUE", 1, <<>>)
    /\ aborted = FALSE

\* a buffer of one or two frames in one or two memory blocks
OctetBuffer ==
  \E f \in {1, 2}, m \in {1, 2} :
    Chain(Buffer(f * self.frame_size, TimeOf(count.buf), f * FrameTime, 0, m,
                 <<>>),
          ChainEnv(0, TRUE, GST_CLOCK_TIME_NONE, TRUE, 2, StaticPeer.config),
          MaxBuffers)

NextOctet ==
  \/ OctetBuffer
  \/ SetPropFramesPerTensor

SpecOctet == InitOctet /\ [][NextOctet]_vars

(***************************************************************************)
(* Segments: a negotiated stream on which up to MaxSegments segment events *)
(* arrive between the buffers, with a flush as the first event or none.    *)
(***************************************************************************)
MaxSegments == 2
MaxSegmentBuffers == 2

SegmentEvents == \E seg \in Segments : SinkEventSegment(seg, MaxSegments)

\* a buffer of one or two frames
SegmentBuffer ==
  \E f \in {1, 2} :
    Chain(Buffer(f * self.frame_size, TimeOf(count.buf), f * FrameTime, 0, 1,
                 <<>>),
          ChainEnv(0, TRUE, GST_CLOCK_TIME_NONE, TRUE, 2, StaticPeer.config),
          MaxSegmentBuffers)

NextSegment ==
  \/ SegmentEvents
  \/ SegmentBuffer
  \/ FlushStop

SpecSegment == InitStream /\ [][NextSegment]_vars

(***************************************************************************)
(* Properties of the windowing engine (SpecStream).                        *)
(***************************************************************************)
\* the last operation was a chain call that went through the windowing engine
Windowed == last.op = "chain" /\ last.call.engine /\ last.ret # "abort"

\* the frames the windowing engine emitted in the last chain call
WindowedFrames == {i \in DOMAIN last.out : last.out[i].windowed}

\* C4: with frames-per-tensor M different from the chunk's frame count, every
\* frame the windowing engine emits has exactly M * frame_size bytes; after a
\* chain call that returns OK the adapter of the substream holds fewer than
\* M * frame_size bytes; a chunk of N frames, M dividing N, pushed to an empty
\* adapter yields exactly N / M frames
C4_WindowedFrameSize ==
  Windowed =>
    LET out_size == last.call.frames_out * last.call.frame_size
        a == gst_tensor_converter_get_adapter(self, last.key)
    IN /\ \A i \in WindowedFrames :
            /\ last.out[i].size = out_size
            /\ Len(last.out[i].bytes) = out_size
       /\ last.ret = "GST_FLOW_OK" => gst_adapter_available(a) < out_size
       /\ (/\ last.ret = "GST_FLOW_OK"
           /\ last.held = 0
           /\ last.call.frames_in > 0
           /\ last.call.frames_in % last.call.frames_out = 0)
          => Len(last.out) = last.call.frames_in \div last.call.frames_out

\* C4 witness: a chunk of three frames was cut into three frames of one
\* frame each, and another call left a partial frame in the adapter
C4_Witness ==
  /\ Windowed
  /\ last.ret = "GST_FLOW_OK"
  /\ last.held = 0
  /\ last.call.frames_in = 3
  /\ last.call.frames_out = 1
  /\ Len(last.out) = 3

\* C5: whenever the frame rate is known and the timestamp of the chunk that
\* holds the first byte of an output frame is valid, the frame is stamped
\* pts_of_source_chunk + byte_distance * (GST_SECOND * rate_d) /
\* (rate_n * frame_size)
C5_InterpolatedPts ==
  Windowed =>
    \A i \in WindowedFrames :
      LET o == last.out[i]
      IN (o.rate_n > 0 /\ o.rate_d > 0 /\ GST_CLOCK_TIME_IS_VALID(o.src.pts))
           => o.pts = o.src.pts
                + (o.src.offset * GST_SECOND * o.rate_d)
                    \div (o.rate_n * o.frame_size)

\* C6 as stated: when the frame rate is unknown, every output frame carries
\* the timestamp of the chunk that contributes its first byte
C6_SourceChunkPts ==
  Windowed =>
    \A i \in WindowedFrames :
      LET o == last.out[i]
      IN ~(o.rate_n > 0 /\ o.rate_d > 0) => o.pts = o.src.pts

\* C6 amended: when the frame rate is unknown, every output frame carries,
\* unmodified, the timestamp the adapter holds for its first byte; that is
\* the timestamp of the chunk contributing the first byte when that chunk
\* has one
C6_AdapterPtsUnmodified ==
  Windowed =>
    \A i \in WindowedFrames :
      LET o == last.out[i]
      IN ~(o.rate_n > 0 /\ o.rate_d > 0) =>
           /\ o.pts = o.src.stamp
           /\ GST_CLOCK_TIME_IS_VALID(o.src.pts) => o.pts = o.src.pts

\* C6 witness: without a frame rate, two frames were cut from one chunk with
\* a valid timestamp and share it
C6_Witness ==
  /\ Windowed
  /\ Len(last.out) >= 2
  /\ \A i \in DOMAIN last.out :
       /\ last.out[i].windowed
       /\ last.out[i].rate_n = 0
       /\ GST_CLOCK_TIME_IS_VALID(last.out[i].pts)
       /\ last.out[i].pts = last.out[1].pts
  /\ last.out[2].src.offset > 0

\* C7 as stated: the duration of an output frame is the duration of the
\* chunk holding its first byte times frames_out / frames_in of that chunk,
\* and unknown when that duration is unknown
C7_SourceChunkDuration ==
  Windowed =>
    \A i \in WindowedFrames :
      LET o == last.out[i]
      IN /\ (GST_CLOCK_TIME_IS_VALID(o.src.duration) /\ o.src.frames > 0)
              => o.duration = (o.src.duration * o.frames_out) \div o.src.frames
         /\ ~GST_CLOCK_TIME_IS_VALID(o.src.duration)
              => o.duration = GST_CLOCK_TIME_NONE

\* C7 amended: the duration of an output frame is the duration of the chunk
\* being processed when the frame is emitted (after the timestamp stage)
\* times frames_out / frames_in of that chunk; it is unknown when that
\* duration is unknown or that chunk holds no whole frame
C7_CurrentChunkDuration ==
  Windowed =>
    \A i \in WindowedFrames :
      LET o == last.out[i]
      IN o.duration =
           IF GST_CLOCK_TIME_IS_VALID(o.in_duration) /\ o.frames_in > 0
           THEN (o.in_duration * o.frames_out) \div o.frames_in
           ELSE GST_CLOCK_TIME_NONE

\* C7 witness: a frame that begins in an earlier chunk of three frames with
\* a known duration is emitted while a chunk of one frame is processed, and
\* takes its duration from the latter
C7_Witness ==
  /\ Windowed
  /\ \E i \in WindowedFrames :
       LET o == last.out[i]
       IN /\ o.src.frames = 3
          /\ o.src.offset > 0
          /\ o.frames_in = 1
          /\ o.frames_out = 2
          /\ GST_CLOCK_TIME_IS_VALID(o.src.duration)
          /\ GST_CLOCK_TIME_IS_VALID(o.in_duration)
          /\ o.duration = 2 * o.in_duration

\* the last operation was a reset: flush-stop or a state change
WasReset == last.op \in {"flush", "READY_TO_PAUSED", "PAUSED_TO_READY"}

\* C8: a flush or reset empties every adapter and emits nothing; no buffer
\* shorter than M * frame_size is pushed downstream, and no frame emitted
\* after the reset holds a byte received before it
C8_ResetDropsPartial ==
  /\ WasReset =>
       /\ last.out = <<>>
       /\ \A k \in DOMAIN self.adapter_table :
            /\ self.adapter_table[k].queue = <<>>
            /\ gst_adapter_available(self.adapter_table[k]) = 0
  /\ last.op = "chain" =>
       \A i \in DOMAIN last.out :
         LET o == last.out[i]
         IN /\ o.size >= o.frames_out * o.frame_size
            /\ \A j \in DOMAIN o.bytes : o.bytes[j] > stream[o.key].base

\* C8 witness: a partial frame was dropped by a reset (the bytes received
\* before it are no whole number of output frames) and a frame was emitted
\* from the bytes received after it
C8_Witness ==
  /\ Windowed
  /\ WindowedFrames # {}
  /\ stream[last.key].base > 0
  /\ stream[last.key].base % (last.call.frames_out * last.call.frame_size) # 0

RECURSIVE ConcatBytes(_, _)
\* the bytes of the buffers from i on, in the order they were pushed
ConcatBytes(out, i) ==
  IF i > Len(out) THEN <<>> ELSE out[i].bytes \o ConcatBytes(out, i + 1)

\* C9: for each substream, between two resets, the concatenation of the
\* emitted output frames is a prefix of the concatenation of the chunks
\* received, in arrival order: the frames of a chain call continue where
\* the frames emitted before it ended
C9_OrderPreserving ==
  (last.op = "chain" /\ last.ret # "abort") =>
    LET bytes == ConcatBytes(last.out, 1)
        n == Len(bytes)
        from == stream[last.key].base + stream[last.key].emitted - n
    IN bytes = [i \in 1..n |-> from + i]

(***************************************************************************)
(* Properties of the negotiation (specification Spec).                     *)
(***************************************************************************)
\* the step is a caps event
CapsStep == last'.op = "caps" /\ count'.caps = count.caps + 1

\* C1: a capability event whose negotiation fails leaves the negotiated
\* state as it was: media kind, configured flag, descriptor, per-frame byte
\* size, depadding flag and external converter are unchanged, and no
\* capability update is published downstream.
C1_FailedNegotiationKeepsState ==
  [][(CapsStep /\ last'.ret = "FALSE") =>
       /\ self'.in_media_type = self.in_media_type
       /\ self'.tensors_configured = self.tensors_configured
       /\ self'.tensors_config = self.tensors_config
       /\ self'.frame_size = self.frame_size
       /\ self'.remove_padding = self.remove_padding
       /\ self'.externalConverter = self.externalConverter
       /\ srcpad' = srcpad
       /\ last'.set_caps = 0]_vars

\* C2: when a valid descriptor is declared through input-dim / input-type, a
\* capability event succeeds only if the descriptor it derives equals the
\* declared one, and neither a capability event nor a buffer changes the
\* declared descriptor.
C2_DeclaredDescriptorPrevails ==
  [][(last'.op \in {"caps", "chain"} /\ count' # count) =>
       /\ self'.tensors_info = self.tensors_info
       /\ (/\ CapsStep
           /\ last'.ret = "TRUE"
           /\ gst_tensors_info_validate(self.tensors_info)) =>
            gst_tensors_info_is_equal(self.tensors_info,
                                      self'.tensors_config.info)]_vars

\* a capability event of audio samples was refused while a byte descriptor
\* was declared
C2_Witness ==
  /\ last.op = "caps"
  /\ last.ret = "FALSE"
  /\ last.caps.media = "audio/x-raw"
  /\ last.caps.format = "S16"
  /\ self.mode = "_CONVERTER_MODE_NONE"
  /\ gst_tensors_info_validate(self.tensors_info)
  /\ self.tensors_info.info[1].type = "_NNS_UINT8"

\* C3: a capability event or a buffer that the process survives makes at
\* most one downstream capability update, and makes one only if the
\* descriptor to publish differs from the one published last; publishing the
\* published descriptor again makes none.
C3_IdempotentPublish ==
  [][(last'.op \in {"caps", "chain"} /\ count' # count /\ ~aborted') =>
       /\ last'.set_caps \in {0, 1}
       /\ last'.set_caps > 0 => self'.tensors_config # published
       /\ last'.set_caps > 0 => published' = self'.tensors_config
       /\ last'.set_caps = 0 => published' = published]_vars

\* the second of two successful capability events publishes nothing, the
\* descriptor being the published one
C3_Witness ==
  /\ last.op = "caps"
  /\ last.ret = "TRUE"
  /\ last.set_caps = 0
  /\ count.caps = 2
  /\ published = self.tensors_config

\* the descriptor parse_octet adopts
OctetAdopted ==
  IF gst_tensors_info_validate(self.tensors_info) THEN self.tensors_info
  ELSE peer.config.info

\* C10: a capability event of a byte stream with frames-per-tensor > 1
\* fails when the descriptor to adopt has more than one tensor or the
\* downstream neighbor takes the flexible format.
C10_OctetFramesConstraint ==
  (/\ last.op = "caps"
   /\ last.caps.media = "application/octet-stream"
   /\ self.mode = "_CONVERTER_MODE_NONE"
   /\ self.frames_per_tensor > 1
   /\ \/ OctetAdopted.num_tensors > 1
      \/ peer.format = "flexible") =>
    last.ret = "FALSE"

\* C11: a capability event of a flexible tensor stream fails whenever
\* frames-per-tensor is greater than 1, with or without a declared
\* descriptor.
C11_TensorNeverAggregates ==
  (/\ last.op = "caps"
   /\ last.caps.media = "other/tensors"
   /\ self.mode = "_CONVERTER_MODE_NONE"
   /\ self.frames_per_tensor > 1) =>
    last.ret = "FALSE"

\* a flexible tensor stream was refused with frames-per-tensor 2 although a
\* valid descriptor is declared
C11_Witness ==
  /\ last.op = "caps"
  /\ last.caps.media = "other/tensors"
  /\ self.mode = "_CONVERTER_MODE_NONE"
  /\ self.frames_per_tensor = 2
  /\ gst_tensors_info_validate(self.tensors_info)
  /\ last.ret = "FALSE"

\* the last operation was a chain call on a flexible tensor stream
TensorChain ==
  /\ last.op = "chain"
  /\ self.in_media_type = "_NNS_TENSOR"
  /\ last.flex # <<>>

\* C12: a flexible tensor buffer with a record whose payload size (header
\* excluded) is not the size of the record's descriptor is refused with a
\* flow error and nothing is pushed, whichever record it is; every buffer
\* that is pushed has one record per tensor of the static descriptor then in
\* force, each of exactly that tensor's size.
C12_PayloadMismatchRejects ==
  TensorChain =>
    /\ PayloadMismatch(last.flex) =>
         /\ last.ret = "GST_FLOW_ERROR"
         /\ last.out = <<>>
         /\ last.set_caps = 0
    /\ last.out # <<>> =>
         /\ Len(last.flex) = self.tensors_config.info.num_tensors
         /\ \A i \in 1..Len(last.flex) :
              last.flex[i].payload =
                gst_tensor_info_get_size(self.tensors_config.info.info[i])

\* a buffer of two records, the first of the right size and the second one
\* byte too long, was refused
C12_Witness ==
  /\ TensorChain
  /\ Len(last.flex) = 2
  /\ last.flex[1].payload = gst_tensor_info_get_size(gst_tensor_meta_info_convert(last.flex[1].meta))
  /\ last.flex[2].payload = gst_tensor_info_get_size(gst_tensor_meta_info_convert(last.flex[2].meta)) + 1
  /\ last.ret = "GST_FLOW_ERROR"
  /\ last.out = <<>>

\* the descriptor case _NNS_TENSOR recovers from the headers of a buffer:
\* static, one tensor per record, the frame rate of the current descriptor
RecoveredConfig(config, flex) ==
  [info |-> [num_tensors |-> Len(flex), format |-> "static",
             info |-> [i \in 1..MaxTensors |->
                         IF i <= Len(flex)
                         THEN gst_tensor_meta_info_convert(flex[i].meta)
                         ELSE EmptyTensor]],
   rate_n |-> config.rate_n, rate_d |-> config.rate_d]

\* the step is a chain call on a flexible tensor stream whose buffer is
\* well-formed and describes tensors other than the current descriptor,
\* while no descriptor is declared and the downstream neighbor takes the
\* static format
ReconfiguringStep ==
  /\ last'.op = "chain"
  /\ count'.buf = count.buf + 1
  /\ ~aborted'
  /\ self.in_media_type = "_NNS_TENSOR"
  /\ last'.flex # <<>>
  /\ ~PayloadMismatch(last'.flex)
  /\ ~gst_tensors_info_validate(self.tensors_info)
  /\ gst_tensors_config_validate(RecoveredConfig(self.tensors_config, last'.flex))
  /\ ~gst_tensors_config_is_equal(self.tensors_config,
                                  RecoveredConfig(self.tensors_config, last'.flex))
  /\ peer.format # "flexible"

\* C13: such a buffer replaces the current descriptor by the recovered one
\* and the caps of the src pad by the caps of the recovered descriptor, with
\* one caps update, and the buffer is pushed with the new descriptor and the
\* new caps in force.
C13_ReconfigureBeforePush ==
  [][ReconfiguringStep =>
       LET new == RecoveredConfig(self.tensors_config, last'.flex)
       IN /\ self'.tensors_config = new
          /\ published' = new
          /\ last'.set_caps = 1
          /\ srcpad' = gst_tensor_pad_caps_from_config(peer, new)
          /\ srcpad' # srcpad
          /\ \A i \in DOMAIN last'.out :
               /\ last'.out[i].config = new
               /\ last'.out[i].caps = srcpad'
               /\ last'.out[i].caps # srcpad]_vars

\* a buffer describing one tensor of 4 bytes arrived on a stream negotiated
\* with the placeholder descriptor and was pushed after one caps update
C13_Witness ==
  /\ TensorChain
  /\ last.set_caps = 1
  /\ last.ret = "GST_FLOW_OK"
  /\ Len(last.out) = 1
  /\ last.out[1].config = self.tensors_config
  /\ last.out[1].caps = srcpad
  /\ self.tensors_config.info.info[1].dimension[1] = 4
  /\ ~gst_tensors_info_validate(self.tensors_info)

\* the step is a chain call in which the custom callback or the external
\* converter converted the buffer
CustomStep ==
  /\ last'.op = "chain"
  /\ count'.buf = count.buf + 1
  /\ ~aborted'
  /\ self.in_media_type = "_NNS_MEDIA_ANY"
  /\ last'.conv.ok
  /\ IF self.mode = "_CONVERTER_MODE_CUSTOM_CODE" THEN self.custom # NULL
     ELSE self.externalConverter # NULL

\* C14: the descriptor a custom conversion returns is compared with the
\* current one; when equal, descriptor and caps stay and no caps update is
\* made; when different, it replaces the current descriptor and the caps of
\* the src pad are set to its caps, with a caps update exactly if they
\* change; whatever the call pushes is pushed after that, with the resulting
\* descriptor and caps in force.
C14_CustomDescriptorRenegotiated ==
  [][CustomStep =>
       LET new == last'.conv.config
           same == gst_tensors_config_is_equal(self.tensors_config, new)
       IN /\ same => /\ self'.tensors_config = self.tensors_config
                     /\ srcpad' = srcpad
                     /\ last'.set_caps = 0
          /\ ~same => /\ self'.tensors_config = new
                      /\ srcpad' = gst_tensor_pad_caps_from_config(peer, new)
                      /\ last'.set_caps = IF srcpad' # srcpad THEN 1 ELSE 0
          /\ \A i \in 1..Len(last'.out) :
               /\ last'.out[i].config = self'.tensors_config
               /\ last'.out[i].caps = srcpad']_vars

\* a custom conversion returned a descriptor other than the current one and
\* the converted buffer was pushed after one caps update
C14_Witness ==
  /\ last.op = "chain"
  /\ self.in_media_type = "_NNS_MEDIA_ANY"
  /\ last.conv.ok
  /\ last.set_caps = 1
  /\ Len(last.out) = 1
  /\ last.conv.config = self.tensors_config
  /\ last.out[1].config = last.conv.config
  /\ last.out[1].caps = srcpad

\* positions of the registry whose converter lists the identifier
Listing(id) ==
  {i \in 1..Len(subplugins) :
     \E j \in 1..Len(subplugins[i].query_caps) :
       subplugins[i].query_caps[j] = id}

\* C15: findExternalConverter returns the converter whose name is the
\* identifier whenever there is one, whatever the converters registered
\* before it list; otherwise the first registered converter that lists the
\* identifier; otherwise none.
C15_ExactNameFirst ==
  last.op = "find" =>
    LET id == last.caps.media
    IN IF \E i \in 1..Len(subplugins) : subplugins[i].name = id
         THEN last.ret = id
       ELSE IF Listing(id) # {}
         THEN \E i \in Listing(id) :
                /\ \A j \in Listing(id) : i <= j
                /\ last.ret = subplugins[i].name
       ELSE last.ret = NULL

(***************************************************************************)
(* Properties of the video negotiation and of the row depadding            *)
(* (SpecVideo).                                                            *)
(***************************************************************************)
\* the last operation was a successful caps event of raw video
VideoNegotiated ==
  /\ last.op = "caps"
  /\ last.ret = "TRUE"
  /\ last.caps.media = "video/x-raw"

\* components per pixel of a format of the media convention
ComponentCount(format) ==
  CASE format \in {"GRAY8", "GRAY16_BE", "GRAY16_LE"} -> 1
    [] format \in {"RGB", "BGR", "RGBP", "BGRP"} -> 3
    [] OTHER -> 4

\* the descriptor is one tensor of the dimensions dims at the frame rate of
\* the caps
VideoDescriptor(dims) ==
  /\ self.tensors_config.info.num_tensors = 1
  /\ self.tensors_config.info.format = "static"
  /\ self.tensors_config.info.info[1].dimension = Dim(dims)
  /\ self.tensors_config.rate_n = last.caps.rate_n
  /\ self.tensors_config.rate_d = last.caps.rate_d

PackedRowBytes ==
  LET t == self.tensors_config.info.info[1]
  IN gst_tensor_get_element_size(t.type) * t.dimension[1] * t.dimension[2]

\* a chain call of a negotiated video stream ended the process at the
\* row-size assertion of the depadding path (the state is the one the call
\* found)
RowAssertFailed ==
  /\ aborted
  /\ last.op = "chain"
  /\ self.tensors_configured
  /\ self.in_media_type = "_NNS_VIDEO"
  /\ self.remove_padding
  /\ PackedRowBytes % 4 = 0

\* C17: after every successful video negotiation, the first or a later one,
\* remove_padding is set exactly if the packed row of the negotiated format
\* is no multiple of 4 bytes, and no chain call ends the process at the
\* row-size assertion of the depadding path.
C17_DepaddingFlagExact ==
  /\ VideoNegotiated => (self.remove_padding <=> PackedRowBytes % 4 # 0)
  /\ ~RowAssertFailed

\* the last operation was a chain call that took a video frame through the
\* depadding path and pushed the result
Depadded ==
  /\ last.op = "chain"
  /\ ~aborted
  /\ last.ret = "GST_FLOW_OK"
  /\ self.in_media_type = "_NNS_VIDEO"
  /\ self.remove_padding

OctetStep ==
  /\ last'.op = "caps"
  /\ count'.caps = count.caps + 1
  /\ last'.caps.media = "application/octet-stream"
  /\ self.mode = "_CONVERTER_MODE_NONE"

\* the descriptor the order of C19 picks for the octet stream: "declared",
\* "flexible", "peer" or "none"
OctetChoice ==
  IF gst_tensors_info_validate(self.tensors_info) THEN "declared"
  ELSE IF peer.config.info.format = "flexible" THEN "flexible"
  ELSE IF gst_tensors_info_validate(peer.config.info) THEN "peer"
  ELSE "none"

\* the negotiated descriptor is the one of the choice
OctetChosen(choice, before, after) ==
  CASE choice = "declared" -> after.tensors_config.info = before.tensors_info
    [] choice = "flexible" ->
         /\ after.tensors_config.info.format = "flexible"
         /\ after.tensors_config.info.num_tensors = 1
         /\ after.tensors_config.info.info[1] = Tensor("_NNS_UINT8", <<1>>)
    [] choice = "peer" -> after.tensors_config.info = peer.config.info
    [] OTHER -> FALSE

\* C19: an octet negotiation uses the valid declared descriptor; else, with
\* a downstream neighbor that takes the flexible format, the flexible
\* descriptor of one uint8 tensor of leading dimension 1; else the valid
\* static descriptor of the downstream neighbor; else it fails.  With one
\* frame per tensor it succeeds whenever one of the three is there; with
\* more it succeeds with the same choice or fails.
C19_OctetDescriptorOrder ==
  [][OctetStep =>
       /\ last'.ret = "TRUE" => OctetChosen(OctetChoice, self, self')
       /\ OctetChoice = "none" => last'.ret = "FALSE"
       /\ (self.frames_per_tensor = 1 /\ OctetChoice # "none")
            => last'.ret = "TRUE"]_vars

\* an octet stream was negotiated with the static descriptor of the
\* downstream neighbor, nothing being declared
C19_Witness ==
  /\ last.op = "caps"
  /\ last.ret = "TRUE"
  /\ last.caps.media = "application/octet-stream"
  /\ self.in_media_type = "_NNS_OCTET"
  /\ ~gst_tensors_info_validate(self.tensors_info)
  /\ peer = StaticPeer
  /\ self.tensors_config.info = StaticPeer.config.info

\* C20: every buffer pushed while the caps of the src pad are flexible has
\* one header in front of each tensor, and one memory block per tensor of
\* the descriptor in force; whatever negotiations, custom conversions and
\* renegotiations came before.
C20_OneHeaderPerTensor ==
  (last.op = "chain" /\ ~aborted) =>
    \A i \in 1..Len(last.out) :
      last.out[i].caps.format = "flexible" =>
        /\ last.out[i].headers = 1
        /\ last.out[i].n_memory = last.out[i].config.info.num_tensors

(***************************************************************************)
(* Properties of the descriptor in force (SpecFlex, Spec).                 *)
(***************************************************************************)
\* C21: every buffer pushed under a flexible descriptor is pushed under a
\* descriptor of exactly one tensor whose leading dimension is the byte
\* size of the buffer.
C21_FlexibleDescriptorPerBuffer ==
  (last.op = "chain" /\ ~aborted) =>
    \A i \in 1..Len(last.out) :
      gst_tensors_config_is_flexible(last.out[i].config) =>
        /\ last.out[i].config.info.num_tensors = 1
        /\ last.out[i].config.info.info[1].dimension[1] = last.out[i].size

\* C22: whenever the element is configured and its descriptor is static,
\* the descriptor is valid: at least one tensor, every tensor with its type
\* set and its dimensions non-zero; after a negotiation and after a chain
\* call replaced the descriptor.
C22_StaticDescriptorValid ==
  (self.tensors_configured /\ ~gst_tensors_config_is_flexible(self.tensors_config))
    => gst_tensors_info_validate(self.tensors_config.info)

RECURSIVE SizeBefore(_, _)
\* the byte sizes of the tensors before tensor i of a descriptor, added up
SizeBefore(info, i) ==
  IF i <= 1 THEN 0
  ELSE SizeBefore(info, i - 1) + gst_tensor_info_get_size(info.info[i - 1])

\* the buffers the last chain call pushed on an octet stream whose current
\* descriptor has several tensors
SplitBuffers ==
  {i \in DOMAIN last.out :
     /\ last.op = "chain"
     /\ self.in_media_type = "_NNS_OCTET"
     /\ last.out[i].config.info.num_tensors > 1}

\* C24: the split of an octet buffer under a static descriptor of several
\* tensors makes one region per tensor, in the order of the descriptor; region
\* i starts at the sum of the byte sizes of the tensors before it and has the
\* byte size of tensor i, so the regions are contiguous, pairwise disjoint
\* and inside the input region
C24_OctetSplitRegions ==
  \A i \in SplitBuffers :
    LET b == last.out[i]
        info == b.config.info
        r == b.regions
    IN /\ Len(r) = info.num_tensors
       /\ \A k \in 1..Len(r) :
            /\ r[k].size = gst_tensor_info_get_size(info.info[k])
            /\ r[k].offset = SizeBefore(info, k)
            /\ r[k].offset + r[k].size <= b.size
            /\ k > 1 => r[k].offset = r[k - 1].offset + r[k - 1].size
       /\ \A k, l \in 1..Len(r) :
            k < l => r[k].offset + r[k].size <= r[l].offset

(***************************************************************************)
(* Properties of the conversion errors (SpecFlex).                         *)
(***************************************************************************)
\* the step is a chain call whose conversion fails: a flexible tensor buffer
\* with a memory block of the wrong size or with tensors other than the
\* declared ones, or a custom conversion without its callback or converter
\* or whose callback or converter returns no buffer
FailedConversion ==
  /\ last'.op = "chain"
  /\ ~aborted'
  /\ \/ /\ self.in_media_type = "_NNS_TENSOR"
        /\ \/ PayloadMismatch(last'.flex)
           \/ /\ ~gst_tensors_config_is_equal(self.tensors_config,
                                              ParsedHeaders(self, last'.flex))
              /\ gst_tensors_info_validate(self.tensors_info)
     \/ /\ self.in_media_type = "_NNS_MEDIA_ANY"
        /\ \/ ~last'.conv.ok
           \/ self.mode = "_CONVERTER_MODE_CUSTOM_CODE" /\ self.custom = NULL
           \/ /\ self.mode # "_CONVERTER_MODE_CUSTOM_CODE"
              /\ self.externalConverter = NULL

\* the failing chain call returns a flow error, emits nothing and leaves the
\* current descriptor and the published capability as they were
ErrorReported ==
  FailedConversion =>
    /\ last'.ret = "GST_FLOW_ERROR"
    /\ last'.out = <<>>
    /\ last'.set_caps = 0
    /\ self'.tensors_config = self.tensors_config
    /\ srcpad' = srcpad
    /\ published' = published

\* the last operation was a chain call that failed before anything was
\* pushed
ChainFailed ==
  last.op = "chain" /\ last.ret = "GST_FLOW_ERROR" /\ last.call = NoCall

\* C25: a conversion error is terminal for the stream: the chain call returns
\* a flow error, emits no buffer for the failing input and leaves the current
\* descriptor and the published capability unchanged, and the next buffers of
\* the stream are not turned into frames any more
C25_ConversionErrorTerminal ==
  [][/\ ErrorReported
     /\ (ChainFailed /\ last'.op = "chain") => last'.out = <<>>]_vars

(***************************************************************************)
(* Properties of a live property change (SpecRace).                        *)
(***************************************************************************)
\* the fields the mode property writes
ModeFields(s) ==
  [mode |-> s.mode, mode_option |-> s.mode_option, custom |-> s.custom,
   custom_data |-> s.custom_data, ext_fw |-> s.ext_fw]

\* the step is a caps event or a chain call of the streaming thread
DataPathStep == count'.caps # count.caps \/ count'.buf # count.buf

\* C26: a negotiation or a conversion that runs while a second context
\* writes the mode property sees either all the fields of the configuration
\* before the write or all the fields of the configuration after it, never
\* the write half-applied
C26_WriteNeverHalfApplied ==
  [][(DataPathStep /\ writer # NoWrite) =>
       ModeFields(self) \in
         {ModeFields(writer.old),
          ModeFields(SetMode(writer.old, writer.param))}]_vars

(***************************************************************************)
(* Properties of the payload memory (SpecCopy).                            *)
(***************************************************************************)
\* the row depadding is active on the stream
DepaddingActive == self.in_media_type = "_NNS_VIDEO" /\ self.remove_padding

\* C27: the row depadding is the only operation of the data path that copies
\* payload bytes: whatever the media kind, a buffer pushed while the
\* depadding is not active is a view of the memory of the buffer that
\* arrived, not a new buffer the payload was copied into
C27_OnlyDepaddingCopies ==
  (last.op = "chain" /\ ~DepaddingActive) =>
    \A i \in 1..Len(last.out) : ~last.out[i].copied

(***************************************************************************)
(* Properties of the deferred negotiation of a custom conversion (Spec).   *)
(***************************************************************************)
\* the placeholder descriptor of a caps event: one uint8 tensor 1:1:1:1 and
\* the frame rate of the caps, 0/1 when they have none
PlaceholderConfig(caps) ==
  WithFramerate([EmptyConfig EXCEPT !.info = PlaceholderInfo], caps)

\* the step is a caps event that selects a custom conversion while the
\* downstream neighbor gives no fixed descriptor
DeferredCaps ==
  /\ count'.caps # count.caps
  /\ SelectMediaType(self, last'.caps) = "_NNS_MEDIA_ANY"
  /\ ~peer.is_fixed

\* the negotiation succeeded with the placeholder descriptor, and the caps
\* of the src pad are those of the placeholder
PlaceholderPublished ==
  /\ last'.ret = "TRUE"
  /\ self'.tensors_configured
  /\ self'.in_media_type = "_NNS_MEDIA_ANY"
  /\ self'.tensors_config = PlaceholderConfig(last'.caps)
  /\ srcpad' = gst_tensor_pad_caps_from_config(peer, self'.tensors_config)

\* whatever a successful custom conversion under the placeholder pushes is
\* pushed with the descriptor the conversion returned in force and with the
\* caps of that descriptor on the src pad
PlaceholderReplaced ==
  (CustomStep /\ self.tensors_config.info = PlaceholderInfo /\ ~peer.is_fixed) =>
    LET new == last'.conv.config
    IN /\ \/ self'.tensors_config = new
          \/ gst_tensors_config_is_equal(self'.tensors_config, new)
       /\ srcpad' = gst_tensor_pad_caps_from_config(peer, self'.tensors_config)
       /\ \A i \in 1..Len(last'.out) :
            /\ last'.out[i].config = self'.tensors_config
            /\ last'.out[i].caps = srcpad'

LookupType(caps) ==
  IF self.mode = "_CONVERTER_MODE_CUSTOM_SCRIPT" THEN self.ext_fw
  ELSE caps.media

\* the collaborator the conversion mode needs does not exist: the name given
\* with custom-code is not a registered callback, or no registered external
\* converter matches
MissingCollaborator(caps) ==
  IF self.mode = "_CONVERTER_MODE_CUSTOM_CODE"
  THEN get_custom_subplugin(self.mode_option) = NULL
  ELSE findExternalConverter(LookupType(caps)) = NULL

\* C29: a caps event that selects a custom conversion fails whenever the
\* collaborator of the active conversion mode cannot be found, so that the
\* missing collaborator is reported by the negotiation and not by the first
\* buffer
C29_MissingCollaboratorRejected ==
  [][(/\ count'.caps # count.caps
      /\ SelectMediaType(self, last'.caps) = "_NNS_MEDIA_ANY"
      /\ MissingCollaborator(last'.caps))
       => last'.ret = "FALSE"]_vars

(***************************************************************************)
(* Properties of the timestamp stage (SpecStamp).                          *)
(***************************************************************************)
\* C30: the timestamp stage leaves timestamp and duration of a buffer that
\* arrives with both as they are; a buffer that arrives without a timestamp
\* leaves the stage with one exactly if set-timestamp is enabled, and leaves
\* it as it came otherwise
C30_TimestampPolicy ==
  last.op = "timestamp" =>
    LET in == last.flex[1]
        out == last.out[1]
    IN /\ (/\ GST_CLOCK_TIME_IS_VALID(in.pts)
           /\ GST_CLOCK_TIME_IS_VALID(in.duration))
            => (out.pts = in.pts /\ out.duration = in.duration)
       /\ ~GST_CLOCK_TIME_IS_VALID(in.pts)
            => (GST_CLOCK_TIME_IS_VALID(out.pts) <=> self.set_timestamp)
       /\ ~self.set_timestamp => out = in

\* with set-timestamp enabled and a known frame rate, a second buffer that
\* arrived without timestamp was stamped later than the segment start
C30_Witness ==
  /\ last.op = "timestamp"
  /\ ~GST_CLOCK_TIME_IS_VALID(last.flex[1].pts)
  /\ self.set_timestamp
  /\ count.buf = 2
  /\ have_framerate(self.tensors_config)
  /\ last.out[1].pts > self.segment.start

(***************************************************************************)
(* Properties of the SNPE filter subplugin (SpecSnpe).                     *)
(***************************************************************************)
\* C31: an invoke that returns has set the address of every input and output
\* user buffer to the memory it was given and has executed the model, and an
\* execution the runtime answered with an error is reported to the caller:
\* it is never returned as success
C31_InvokeReportsFailure ==
  last.op = "invoke" =>
    /\ last.ret = "return" =>
         /\ last.call.executed
         /\ \A i \in 1..self.inputInfo.num_tensors :
              self.inputMap_h[i] = last.call.input[i]
         /\ \A i \in 1..self.outputInfo.num_tensors :
              self.outputMap_h[i] = last.call.output[i]
    /\ (last.call.executed /\ last.call.status # "SNPE_SUCCESS")
         => last.ret = "throw"

(***************************************************************************)
(* Properties of the flexible-to-static conversion under a declared        *)
(* descriptor (Spec).                                                      *)
(***************************************************************************)
\* the step is a chain call on a flexible tensor stream while a valid
\* descriptor is declared, and the descriptor recovered from the headers of
\* the buffer is not the current one
DriftStep ==
  /\ last'.op = "chain"
  /\ count'.buf = count.buf + 1
  /\ ~aborted'
  /\ self.in_media_type = "_NNS_TENSOR"
  /\ last'.flex # <<>>
  /\ gst_tensors_info_validate(self.tensors_info)
  /\ ~gst_tensors_config_is_equal(self.tensors_config,
                                  RecoveredConfig(self.tensors_config, last'.flex))

\* C32: such a buffer is refused with a flow error and nothing is pushed;
\* the current descriptor, the declared descriptor, the caps of the src pad
\* and the published descriptor stay as they were
C32_DeclaredDescriptorKept ==
  [][DriftStep =>
       /\ last'.ret = "GST_FLOW_ERROR"
       /\ last'.out = <<>>
       /\ last'.set_caps = 0
       /\ self'.tensors_config = self.tensors_config
       /\ self'.tensors_info = self.tensors_info
       /\ srcpad' = srcpad
       /\ published' = published]_vars

\* on a stream negotiated with a declared descriptor, a well-formed buffer
\* describing other tensors was refused
C32_Witness ==
  /\ TensorChain
  /\ self.tensors_configured
  /\ srcpad # NoCaps
  /\ gst_tensors_info_validate(self.tensors_info)
  /\ gst_tensors_info_is_equal(self.tensors_config.info, self.tensors_info)
  /\ ~PayloadMismatch(last.flex)
  /\ gst_tensors_config_validate(RecoveredConfig(self.tensors_config, last.flex))
  /\ ~gst_tensors_config_is_equal(self.tensors_config,
                                  RecoveredConfig(self.tensors_config, last.flex))
  /\ last.ret = "GST_FLOW_ERROR"
  /\ last.out = <<>>

(***************************************************************************)
(* Properties of the size of pushed buffers (Spec).                        *)
(***************************************************************************)
\* the last operation was a chain call on a video, audio, text or octet
\* stream that is sent in the static format
StaticMediaChain ==
  /\ last.op = "chain"
  /\ self.in_media_type \in {"_NNS_VIDEO", "_NNS_AUDIO", "_NNS_TEXT",
                             "_NNS_OCTET"}
  /\ ~gst_tensors_config_is_flexible(self.tensors_config)
  /\ ~gst_tensor_pad_caps_is_flexible(srcpad)

\* C33: every buffer pushed on a video, audio, text or static octet stream
\* has the byte size of the published descriptor
C33_PushedSizeIsDescriptorSize ==
  StaticMediaChain =>
    \A i \in DOMAIN last.out :
      /\ published # NoConfig
      /\ last.out[i].size = gst_tensors_info_get_size(published.info)

(***************************************************************************)
(* Properties of the emit loop's frame size (Spec).                        *)
(***************************************************************************)
\* C34: whenever a chain call enters the windowing engine, the output frame
\* size frames_out * frame_size is greater than zero, so every iteration of
\* the emit loop takes bytes out of the adapter and the loop ends
C34_EmitLoopFrameSizePositive ==
  (last.op = "chain" /\ last.call.engine) =>
    last.call.frames_out * last.call.frame_size > 0

\* C35: every rational scaling on the data path has a denominator that is
\* positive and fits a signed 32-bit integer: frames_in when the engine
\* scales a valid duration, rate_n * frame_size when it reconstructs the
\* timestamps of a chunk of more than one frame, and frame_size * rate_n
\* when a pending byte segment with a known rate and a start is converted
C35_ScalingDenominators ==
  [][(count'.buf = count.buf + 1 /\ last'.op = "chain") =>
       LET call == last'.call
           config == self.tensors_config
           Fits(denom) == denom > 0 /\ denom <= 2147483647
       IN /\ (call.engine /\ GST_CLOCK_TIME_IS_VALID(call.duration))
               => Fits(call.frames_in)
          /\ (call.engine /\ call.frames_in > 1 /\ have_framerate(config))
               => Fits(config.rate_n * call.frame_size)
          /\ (self.need_segment /\ have_framerate(config)
                /\ self.segment.start > 0 /\ last'.ret # "GST_FLOW_ERROR")
               => Fits(self.frame_size * config.rate_n)]_vars

\* a chain call on a RawOctet stream that reached the push (no pending
\* segment failed, the duration was scaled by a positive frames_in, the
\* output size is positive) and stopped at the assertion
\* g_assert (self->frames_per_tensor == 1) of the split
OctetAssertionFailed ==
  /\ last.op = "chain"
  /\ self.in_media_type = "_NNS_OCTET"
  /\ last.call # NoCall
  /\ last.call.frames_in > 0
  /\ last.call.frames_out * last.call.frame_size > 0
  /\ last.ret = "abort"

\* C36: the assertion frames_per_tensor == 1 of the RawOctet split holds
\* whenever a buffer is pushed and the descriptor has more than one tensor
\* or the buffer more than one memory block, also for a single-tensor
\* stream negotiated with frames-per-tensor > 1 and after a write to
\* frames-per-tensor made after the negotiation
C36_OctetSplitAssertion == ~OctetAssertionFailed

\* C37: a TIME segment is forwarded as is, a BYTES segment is kept for the
\* chain function and any other format is refused; after a BYTES segment
\* and until the first buffer is pushed, the only TIME segment pushed
\* downstream is the one the chain function pushes, once, before that
\* buffer; a chain call without a pending conversion pushes no segment;
\* and a pending conversion always has a received segment
C37_SegmentConversion ==
  [][/\ (count'.ev = count.ev + 1 /\ last'.op = "segment") =>
          /\ self'.segment.format = "GST_FORMAT_TIME"
               => last'.ret = "TRUE" /\ last'.events = <<self'.segment>>
          /\ self'.segment.format = "GST_FORMAT_BYTES"
               => last'.ret = "TRUE" /\ last'.events = <<>>
                    /\ self'.need_segment
          /\ self'.segment.format
               \notin {"GST_FORMAT_TIME", "GST_FORMAT_BYTES"}
               => last'.ret = "FALSE" /\ last'.events = <<>>
          /\ self.need_segment => last'.events = <<>>
     /\ (count'.buf = count.buf + 1 /\ last'.op = "chain" /\ ~aborted') =>
          /\ ~self.need_segment => last'.events = <<>>
          /\ last'.events # <<>>
               => /\ Len(last'.events) = 1
                  /\ last'.events[1].format = "GST_FORMAT_TIME"
                  /\ ~self'.need_segment
          /\ last'.out # <<>> => ~self'.need_segment
          /\ (self.need_segment /\ last'.out # <<>>) => last'.events # <<>>
     /\ self'.need_segment => self'.have_segment]_vars

\* a caps event that succeeded for a stream only an external converter
\* understands (the mode is not custom-code)
ExternalNegotiationStep ==
  /\ count'.caps = count.caps + 1
  /\ last'.op = "caps"
  /\ last'.ret = "TRUE"
  /\ self'.in_media_type = "_NNS_MEDIA_ANY"
  /\ self'.mode # "_CONVERTER_MODE_CUSTOM_CODE"

\* C38: after every successful negotiation that uses an external converter,
\* a renegotiation with another identifier included, the cached converter
\* is the one findExternalConverter returns for the identifier just
\* negotiated, and when the peer's descriptor is not fixed the current
\* descriptor is the one get_out_config of that converter reports
C38_CachedConverterIsCurrent ==
  [][ExternalNegotiationStep =>
       LET mimetype == IF self'.mode = "_CONVERTER_MODE_CUSTOM_SCRIPT"
                       THEN self'.ext_fw ELSE last'.caps.media
           peer_cfg == gst_tensors_config_from_peer(peer)
       IN /\ self'.externalConverter = findExternalConverter(mimetype)
          /\ ~(peer_cfg.ok /\ peer_cfg.is_fixed)
               => self'.tensors_config \in ExtConfigs]_vars

\* a mode string the setter rejects: it has no mode option, or it names a
\* custom-code callback that is not registered
RejectedMode(param) ==
  \/ Len(param) < 2
  \/ param[1] = "custom-code" /\ get_custom_subplugin(param[2]) = NULL

\* C39: a rejected write to the mode property leaves the conversion mode,
\* the mode option and the registered callback as they were before it
C39_RejectedModeWriteChangesNothing ==
  \A param \in ModeStrings :
    RejectedMode(param) =>
      /\ SetMode(self, param).mode = self.mode
      /\ SetMode(self, param).mode_option = self.mode_option
      /\ SetMode(self, param).custom = self.custom

\* C40: with set-timestamp enabled and a known frame rate, a buffer that
\* arrives without a timestamp is stamped with the segment start when it is
\* the first after a reset, and with the timestamp plus the duration of the
\* buffer before it when that one arrived without a timestamp too, also
\* when the two hold different numbers of frames
C40_ContiguousStamps ==
  [][(/\ count'.buf = count.buf + 1
      /\ last'.op = "timestamp"
      /\ self.set_timestamp
      /\ have_framerate(self.tensors_config)
      /\ ~GST_CLOCK_TIME_IS_VALID(last'.flex[1].pts)) =>
       /\ count.buf = 0 => last'.out[1].pts = self.segment.start
       /\ (/\ last.op = "timestamp"
           /\ ~GST_CLOCK_TIME_IS_VALID(last.flex[1].pts))
            => last'.out[1].pts = last.out[1].pts + last.out[1].duration]_vars
====
